---- MODULE Spec2Model ----
(***************************************************************************)
(* Model of the agent turn loop of agent-cli (packages/core/src/core/      *)
(* turn.ts): Turn.run turns one provider stream into a sequence of typed   *)
(* events, records pending tool calls and raw chunks, and translates       *)
(* failures and cancellation into terminal events.                         *)
(*                                                                         *)
(* Turn.run is an async generator.  One action of the model is one segment *)
(* of the generator between two suspension points (an await or a yield);   *)
(* the cancellation signal can only change while the generator is          *)
(* suspended, which is exactly between two actions.                        *)
(*                                                                         *)
(* The module also models the tool call scheduler (SpecScheduler), the     *)
(* telemetry logger ClearcutLogger with its queue and flushes (SpecLogger),*)
(* its singleton accessor (SpecInstance) and the decoding of the           *)
(* collector's response (SpecDecode).  Each specification leaves the       *)
(* variables of the other components as they are after construction.       *)
(***************************************************************************)
EXTENDS Integers, Sequences, FiniteSets, TLC

(***************************************************************************)
(* Bounds of the model.                                                    *)
(***************************************************************************)
MaxChunks == 2
MaxNow == 1

(***************************************************************************)
(* JavaScript values.  Every value carries its type tag; the payload field *)
(* has a different name per type, so values of different types are         *)
(* different records.  A text (Part.text, the value of a Content event) is *)
(* a sequence of one-character strings; ids, names and messages are        *)
(* strings.                                                                *)
(***************************************************************************)
Undefined == [t |-> "undefined"]
Str(s) == [t |-> "string", s |-> s]
Txt(cs) == [t |-> "text", cs |-> cs]
Num(n) == [t |-> "number", n |-> n]
Obj(m) == [t |-> "object", o |-> m]
Arr(xs) == [t |-> "array", a |-> xs]

\* JavaScript truthiness: undefined, "" and 0 are falsy, objects are truthy.
Truthy(v) ==
  CASE v.t = "undefined" -> FALSE
    [] v.t = "string" -> v.s # ""
    [] v.t = "text" -> v.cs # <<>>
    [] v.t = "number" -> v.n # 0
    [] v.t = "boolean" -> v.b
    [] OTHER -> TRUE

\* `${v}` of a template literal applied to an optional string.
TemplateString(v) == IF v.t = "undefined" THEN "undefined" ELSE v.s

(***************************************************************************)
(* AgentEventType (the members Turn.run yields).                           *)
(***************************************************************************)
Content == "content"
ToolCallRequest == "tool_call_request"
UserCancelled == "user_cancelled"
Error == "error"
Thought == "thought"

(***************************************************************************)
(* Inputs: function calls, parts, chunks, failures, history, request.      *)
(***************************************************************************)
Part(thought, text) == [thought |-> thought, text |-> text]
Chunk(parts, functionCalls) ==
  [parts |-> parts, functionCalls |-> functionCalls]
FunctionCall(id, name, args) == [id |-> id, name |-> name, args |-> args]

Arg1 == {<<"arg1", "val1">>}
EmptyArgs == {}

fcWithId == FunctionCall(Str("fc1"), Str("tool1"), Obj(Arg1))
fcNoId == FunctionCall(Undefined, Str("tool1"), Undefined)
fcNoName == FunctionCall(Str("fc1"), Undefined, Undefined)
fcEmptyName == FunctionCall(Undefined, Str(""), Obj(EmptyArgs))

\* The chunks a stream is made of: a text in two parts, an empty text, a
\* thought (with a function call next to it), two function calls without
\* text, and a text with two function calls.
ChunkPool ==
  { Chunk(<<Part(FALSE, Txt(<<"H">>)), Part(FALSE, Txt(<<"i">>))>>, Undefined),
    Chunk(<<Part(FALSE, Txt(<<>>))>>, Arr(<<>>)),
    Chunk(<<Part(TRUE, Txt(<<"*", "*", "S", "", "*", "*", "\r", "\n", "d",
                              " ">>))>>,
          Arr(<<fcWithId>>)),
    Chunk(<<>>, Arr(<<fcWithId, fcNoId>>)),
    Chunk(<<Part(FALSE, Txt(<<"H", "i">>))>>, Arr(<<fcNoName, fcEmptyName>>)) }

ErrorObj(cls, message, status) ==
  [cls |-> cls, message |-> message, status |-> status]

Failures ==
  { ErrorObj("Error", "API Error", Undefined),
    ErrorObj("Error", "Too Many Requests", Num(429)),
    ErrorObj("Error", "Bad Gateway", Str("502")),
    ErrorObj("UnauthorizedError", "Unauthorized", Num(401)) }

\* How the provider behaves: sendMessageStream rejects, or the stream it
\* resolves to delivers its chunks and then ends or throws.
Outcomes ==
  {[kind |-> "end"]}
    \cup {[kind |-> "throw", error |-> e] : e \in Failures}
    \cup {[kind |-> "reject", error |-> e] : e \in Failures}

HistoryEntry(role, text) == [role |-> role, text |-> text]
Histories == {<<>>, <<HistoryEntry("model", "Previous history")>>}
Requests == {HistoryEntry("user", "Hi")}

\* utils/errorReporting.ts: the report is best effort; reportError resolves
\* whether the report file could be written or not.
ReportOutcomes == {"written", "not_written"}

\* Math.random().toString(16).slice(2): some hexadecimal digits.
RandomSuffixes == {"8c", "f3"}

\* Date.now() is the time of the previous reading or a later one.
Clock(t) == IF t < MaxNow THEN t + 1 ELSE t

SeqsUpTo(S, n) == UNION {[1..k -> S] : k \in 0..n}

(***************************************************************************)
(* State.                                                                  *)
(***************************************************************************)
VARIABLES
  stream,           \* the chunks the provider stream delivers, in order
  outcome,          \* how the provider call ends (see Outcomes)
  history,          \* chat.getHistory(true)
  req,              \* the request parts given to run
  aborted,          \* signal.aborted
  now,              \* Date.now()
  pc,               \* where the generator is suspended
  idx,              \* number of chunks received from the stream
  fcIdx,            \* index in functionCalls of the call last yielded
  events,           \* the events yielded so far
  pendingToolCalls, \* Turn.pendingToolCalls
  debugResponses,   \* Turn.debugResponses
  reports,          \* the calls of reportError so far
  reportOutcome,    \* how the diagnostic report ended ("none" before)
  thrown,           \* <<e>> once run has thrown e to its caller, else <<>>
  eventChunk,       \* history: for each event, the index of its chunk (0: none)
  handledCalls,     \* history: the function calls handled, in order
  cancelSeenAt,     \* history: first chunk received with the signal set (0: no)
  failure           \* history: <<[error, aborted]>> once the catch block ran

inputs == <<stream, outcome, history, req>>
turn == <<pendingToolCalls, debugResponses>>
turnVars == <<stream, outcome, history, req, aborted, now, pc, idx, fcIdx,
              events, pendingToolCalls, debugResponses, reports, reportOutcome,
              thrown, eventChunk, handledCalls, cancelSeenAt, failure>>

\* The tool call scheduler.
VARIABLES
  toolCalls,        \* the calls of the batch: request, status, outcome
  completed,        \* the ToolCallResponses produced so far, in order
  schedSignal,      \* the cancellation signal shared with the scheduler
  cancelObserved    \* the scheduler has seen the signal set

schedVars == <<toolCalls, completed, schedSignal, cancelObserved>>

\* The ClearcutLogger.
VARIABLES
  logEvents,        \* ClearcutLogger.events, the pending queue
  last_flush_time,  \* ClearcutLogger.last_flush_time
  clockMs,          \* Date.now() as the logger reads it
  flushes,          \* the calls of flushToClearcut so far, in order
  logCalls,         \* history: the number of calls of the log methods
  lastCall,         \* history: <<>> or <<the latest call of a log method>>
  enqueued,         \* history: the number of calls of enqueueLogEvent
  instance,         \* ClearcutLogger.instance: <<>> or <<the logger>>
  constructions,    \* history: the configs the constructor has run with
  returned          \* history: the calls of getInstance and their results

loggerVars == <<logEvents, last_flush_time, clockMs, flushes, logCalls,
                lastCall, enqueued>>
instanceVars == <<instance, constructions, returned>>

\* decodeLogResponse.
VARIABLES
  buf,              \* the response body handed to decodeLogResponse
  decoded           \* <<>> before the call, then <<its result>>

decodeVars == <<buf, decoded>>

\* The telemetry event classes.
VARIABLES
  dateNow,          \* the clock that new Date() reads, in milliseconds
  built,            \* history: the events constructed and the clock at each
  decided           \* history: <<>> or <<the latest call of getDecisionFromOutcome>>

eventVars == <<dateNow, built, decided>>

\* getEffectiveModel.
VARIABLES
  checkArgs,        \* <<the arguments of the call of getEffectiveModel>>
  checkPc,          \* where the call is: start, awaiting (the probe), done
  sent,             \* the probe requests handed to fetch, in order
  timer,            \* the abort timer: none, armed, cleared, fired
  waited,           \* milliseconds since the probe was sent
  effective,        \* <<>> or <<the settled promise of getEffectiveModel>>
  answered          \* history: <<>> or <<how the probe ended>>

modelCheckVars == <<checkArgs, checkPc, sent, timer, waited, effective, answered>>

\* OpenAIContentGenerator.
VARIABLES
  toolCallIdMap,    \* OpenAIContentGenerator.toolCallIdMap
  chunks,           \* the chunks the OpenAI stream delivers, in order
  taken,            \* the number of chunks the generator has taken
  accumulatedContent, \* accumulatedContent of generateContentStream
  accumulatedToolCalls, \* accumulatedToolCalls of generateContentStream
  emitted,          \* the responses the generator has yielded, in order
  generator,        \* running, yielded_text, yielded_tool_calls, done, returned, or the Error thrown
  contents,         \* <<the history handed to convertContentsToMessages>>
  messages,         \* <<>> or <<the messages convertContentsToMessages returned>>
  generated,        \* <<>> or <<what generateContent settled with: response or error>>
  generatePc        \* where generateContent is: idle, awaiting (the API), settled

openaiVars == <<toolCallIdMap, chunks, taken, accumulatedContent, accumulatedToolCalls, emitted, generator, contents, messages, generated, generatePc>>

\* ReadFileTool.
VARIABLES
  readParams,       \* <<the params handed to ReadFileTool.execute>>
  readPc,           \* where execute is: start, reading (the file), done
  filesRead,        \* the calls of processSingleFileContent, in order
  fileMetrics,      \* the calls of recordFileOperationMetric, in order
  toolResult        \* <<>> or <<the settled promise of execute>>

readFileVars == <<readParams, readPc, filesRead, fileMetrics, toolResult>>

\* FileDiscoveryService.
VARIABLES
  gitIgnoreFilter,  \* FileDiscoveryService.gitIgnoreFilter: <<>> (null) or <<the filter>>
  filePaths,        \* the paths handed to filterFiles and to shouldIgnoreFile
  filterOptions,    \* <<>> (no options argument) or <<the options object>>
  kept,             \* <<>> or <<what filterFiles returned>>
  verdicts          \* what shouldIgnoreFile returned for the first paths, in order

discoveryVars == <<gitIgnoreFilter, filePaths, filterOptions, kept, verdicts>>

\* The components of the specifications above and of those below.
coreVars == <<turnVars, schedVars, loggerVars, instanceVars, decodeVars>>
restVars == <<eventVars, modelCheckVars, openaiVars, readFileVars, discoveryVars>>
besides_eventVars == <<coreVars, modelCheckVars, openaiVars, readFileVars, discoveryVars>>
besides_modelCheckVars == <<coreVars, eventVars, openaiVars, readFileVars, discoveryVars>>
besides_openaiVars == <<coreVars, eventVars, modelCheckVars, readFileVars, discoveryVars>>
besides_readFileVars == <<coreVars, eventVars, modelCheckVars, openaiVars, discoveryVars>>
besides_discoveryVars == <<coreVars, eventVars, modelCheckVars, openaiVars, readFileVars>>

vars == <<coreVars, restVars>>

\* The components a specification does not exercise stay as constructed.
SchedulerIdle ==
  /\ toolCalls = <<>>
  /\ completed = <<>>
  /\ schedSignal = FALSE
  /\ cancelObserved = FALSE
LoggerIdle ==
  /\ logEvents = <<>>
  /\ last_flush_time = 0
  /\ clockMs = 0
  /\ flushes = <<>>
  /\ logCalls = 0
  /\ lastCall = <<>>
  /\ enqueued = 0
InstanceIdle ==
  /\ instance = <<>>
  /\ constructions = <<>>
  /\ returned = <<>>
DecoderIdle ==
  /\ buf = <<>>
  /\ decoded = <<>>
EventsIdle ==
  /\ dateNow = 0
  /\ built = <<>>
  /\ decided = <<>>
ModelCheckIdle ==
  /\ checkArgs = <<>>
  /\ checkPc = "start"
  /\ sent = <<>>
  /\ timer = "none"
  /\ waited = 0
  /\ effective = <<>>
  /\ answered = <<>>
OpenAIIdle ==
  /\ toolCallIdMap = {}
  /\ chunks = <<>>
  /\ taken = 0
  /\ accumulatedContent = ""
  /\ accumulatedToolCalls = <<>>
  /\ emitted = <<>>
  /\ generator = "running"
  /\ contents = <<>>
  /\ messages = <<>>
  /\ generated = <<>>
  /\ generatePc = "idle"
ReadFileIdle ==
  /\ readParams = <<>>
  /\ readPc = "start"
  /\ filesRead = <<>>
  /\ fileMetrics = <<>>
  /\ toolResult = <<>>
DiscoveryIdle ==
  /\ gitIgnoreFilter = <<>>
  /\ filePaths = <<>>
  /\ filterOptions = <<>>
  /\ kept = <<>>
  /\ verdicts = <<>>
RestIdle ==
  /\ EventsIdle
  /\ ModelCheckIdle
  /\ OpenAIIdle
  /\ ReadFileIdle
  /\ DiscoveryIdle
RestIdleBesides_EventsIdle ==
  /\ ModelCheckIdle
  /\ OpenAIIdle
  /\ ReadFileIdle
  /\ DiscoveryIdle
RestIdleBesides_ModelCheckIdle ==
  /\ EventsIdle
  /\ OpenAIIdle
  /\ ReadFileIdle
  /\ DiscoveryIdle
RestIdleBesides_OpenAIIdle ==
  /\ EventsIdle
  /\ ModelCheckIdle
  /\ ReadFileIdle
  /\ DiscoveryIdle
RestIdleBesides_ReadFileIdle ==
  /\ EventsIdle
  /\ ModelCheckIdle
  /\ OpenAIIdle
  /\ DiscoveryIdle
RestIdleBesides_DiscoveryIdle ==
  /\ EventsIdle
  /\ ModelCheckIdle
  /\ OpenAIIdle
  /\ ReadFileIdle

(***************************************************************************)
(* Pure helpers of Turn.run.                                               *)
(***************************************************************************)
\* The thought regular expression /\*\*(.*?)\*\*/s on a text: <<i, j>> where
\* i is the leftmost position of a "**" that is followed by a later "**"
\* and j the position of the nearest such later "**"; <<>> when no match.
StarsAt(s, i) == i >= 1 /\ i + 1 <= Len(s) /\ s[i] = "*" /\ s[i + 1] = "*"
Minimum(S) == CHOOSE x \in S : \A y \in S : x <= y
Maximum(S) == CHOOSE x \in S : \A y \in S : x >= y
ClosersOf(s, i) == {j \in (i + 2)..Len(s) : StarsAt(s, j)}
subjectStringMatches(s) ==
  LET starts == {i \in 1..Len(s) : StarsAt(s, i) /\ ClosersOf(s, i) # {}}
  IN IF starts = {} THEN <<>>
     ELSE <<Minimum(starts), Minimum(ClosersOf(s, Minimum(starts)))>>

\* String.prototype.trim removes white space and line terminators at both
\* ends; of those, the characters a text of the model can hold.
\* The last four are U+000B (line tabulation), U+00A0 (no-break space),
\* U+1680 (ogham space mark) and U+FEFF (byte order mark).
Whitespace ==
  {" ", "\n", "\t", "\r", "\f", "", " ", " ", "﻿"}
trim(s) ==
  LET keep == {i \in 1..Len(s) : s[i] \notin Whitespace}
  IN IF keep = {} THEN <<>> ELSE SubSeq(s, Minimum(keep), Maximum(keep))

\* Lines 175-184: the ThoughtSummary of a thought part.
ThoughtSummary(thoughtPart) ==
  LET rawText == IF thoughtPart.text.t = "undefined" THEN <<>>
                 ELSE thoughtPart.text.cs
      m == subjectStringMatches(rawText)
  IN [subject |-> IF m # <<>> THEN trim(SubSeq(rawText, m[1] + 2, m[2] - 1))
                  ELSE <<>>,
      description |->
        IF m # <<>>
        THEN trim(SubSeq(rawText, 1, m[1] - 1)
                    \o SubSeq(rawText, m[2] + 2, Len(rawText)))
        ELSE trim(rawText)]

\* resp.candidates?.[0]?.content?.parts?.[0] has a truthy thought flag.
IsThoughtChunk(resp) == resp.parts # <<>> /\ resp.parts[1].thought

\* utils/generateContentResponseUtilities.ts: the texts of the parts of the
\* first candidate joined; undefined when there is no text part.
RECURSIVE JoinTexts(_)
JoinTexts(parts) ==
  IF parts = <<>> THEN <<>>
  ELSE (IF Head(parts).text.t = "text" THEN Head(parts).text.cs ELSE <<>>)
         \o JoinTexts(Tail(parts))
getResponseText(resp) ==
  IF \A i \in 1..Len(resp.parts) : resp.parts[i].text.t # "text"
  THEN Undefined
  ELSE Txt(JoinTexts(resp.parts))

\* Mutant: the test is for a defined text instead of a truthy one.
YieldsContentIfDefined(text) == text.t # "undefined"

\* Line 194: if (text).
YieldsContent(text) == Truthy(text)

\* Line 199: resp.functionCalls ?? [].
functionCallsOf(resp) ==
  IF resp.functionCalls.t = "undefined" THEN <<>> ELSE resp.functionCalls.a

\* Mutant: name and args default with ?? instead of ||.
toolCallRequestNullish(fnCall, epochMs, random) ==
  [callId |-> IF fnCall.id.t # "undefined" THEN fnCall.id.s
              ELSE TemplateString(fnCall.name) \o "-" \o ToString(epochMs)
                     \o "-" \o random,
   name |-> IF fnCall.name.t # "undefined" THEN fnCall.name
            ELSE Str("undefined_tool_name"),
   args |-> IF fnCall.args.t # "undefined" THEN fnCall.args ELSE Obj(EmptyArgs),
   isClientInitiated |-> FALSE]

\* Lines 244-255: the ToolCallRequestInfo built from a function call, given
\* the values Date.now() and Math.random() return.
toolCallRequest(fnCall, epochMs, random) ==
  [callId |-> IF fnCall.id.t # "undefined" THEN fnCall.id.s
              ELSE TemplateString(fnCall.name) \o "-" \o ToString(epochMs)
                     \o "-" \o random,
   name |-> IF Truthy(fnCall.name) THEN fnCall.name
            ELSE Str("undefined_tool_name"),
   args |-> IF Truthy(fnCall.args) THEN fnCall.args ELSE Obj(EmptyArgs),
   isClientInitiated |-> FALSE]

\* Mutant: the request is put at the front (unshift instead of push).
pushPendingFront(list, request) == <<request>> \o list

\* Line 257: this.pendingToolCalls.push(toolCallRequest).
pushPending(list, request) == Append(list, request)

\* Mutant: the chunk is logged before the cancellation check.
pushDebugAlways(list, resp, cancelled) == Append(list, resp)

\* Lines 164-169: the raw chunk is logged unless cancellation was seen.
pushDebug(list, resp, cancelled) ==
  IF cancelled THEN list ELSE Append(list, resp)

\* Mutant: the loop does not look at the signal.
abortedAtChunkIgnored == FALSE

\* Line 164: signal?.aborted, read when a chunk has been received.
abortedAtChunk == aborted

\* Mutant: the catch block does not look at the signal.
abortedAtCatchIgnored == FALSE

\* Line 212: signal.aborted, read in the catch block.
abortedAtCatch == aborted

\* utils/errors.ts is not among the sources.  The design only fixes that the
\* authorization failure is told apart by its error subtype; failures are
\* drawn in the form the conversion leaves them in.
toFriendlyError(e) == e

\* Mutants: no error is taken for an authorization error; every error is.
isUnauthorizedNever(error) == FALSE
isUnauthorizedAlways(error) == TRUE

\* Line 209: error instanceof UnauthorizedError.
isUnauthorized(error) == error.cls = "UnauthorizedError"

\* utils/errors.ts: the message of an Error.
getErrorMessage(error) == error.message

\* Mutant: the request is left out of the report context.
contextForReportHistoryOnly(curated, request) == curated

\* Line 218: [...this.chat.getHistory(true), req].
contextForReport(curated, request) == Append(curated, request)

\* Lines 225-235.
structuredError(error) ==
  [message |-> getErrorMessage(error),
   status |-> IF error.status.t = "number" THEN error.status ELSE Undefined]

(***************************************************************************)
(* Fragments shared by the actions.                                        *)
(***************************************************************************)
Yield(event, chunkIndex) ==
  /\ events' = Append(events, event)
  /\ eventChunk' = Append(eventChunk, chunkIndex)

\* Lines 200-205 for the k-th function call of chunk number n: the call is
\* handled (lines 241-261) and its event yielded; after the last call the
\* loop goes back to awaiting the stream.
HandleCallsFrom(n, k) ==
  LET calls == functionCallsOf(stream[n])
  IN IF k <= Len(calls)
     THEN \E epochMs \in {now, Clock(now)}, random \in RandomSuffixes :
            LET request == toolCallRequest(calls[k], epochMs, random)
            IN /\ now' = epochMs
               /\ pendingToolCalls' = pushPending(pendingToolCalls, request)
               /\ handledCalls' = Append(handledCalls, calls[k])
               /\ Yield([type |-> ToolCallRequest, value |-> request], n)
               /\ fcIdx' = k
               /\ pc' = "toolcall"
     ELSE /\ pc' = "read"
          /\ fcIdx' = 0
          /\ UNCHANGED <<now, pendingToolCalls, handledCalls, events,
                         eventChunk>>

\* Lines 207-238 up to the next suspension point, for a caught e.
Catch(e) ==
  LET error == toFriendlyError(e)
  IN /\ failure' = <<[error |-> e, aborted |-> aborted]>>
     /\ IF isUnauthorized(error)
        THEN /\ thrown' = <<error>>
             /\ pc' = "done"
             /\ UNCHANGED <<events, eventChunk, reports>>
        ELSE IF abortedAtCatch
        THEN /\ Yield([type |-> UserCancelled], 0)
             /\ pc' = "cancelled"
             /\ UNCHANGED <<thrown, reports>>
        ELSE /\ reports' = Append(reports,
                  [error |-> error,
                   baseMessage |-> "Error when talking to Agent API",
                   context |-> contextForReport(history, req),
                   type |-> "Turn.run-sendMessageStream"])
             /\ pc' = "reporting"
             /\ UNCHANGED <<thrown, events, eventChunk>>

(***************************************************************************)
(* Initial state: a fresh Turn (lines 146-149) and a call of run that has  *)
(* not started yet.  The signal may already be set.                        *)
(***************************************************************************)
Init ==
  /\ stream \in SeqsUpTo(ChunkPool, MaxChunks)
  /\ outcome \in Outcomes
  /\ outcome.kind = "reject" => stream = <<>>
  /\ history \in Histories
  /\ req \in Requests
  /\ aborted = FALSE
  /\ now = 0
  /\ pc = "start"
  /\ idx = 0
  /\ fcIdx = 0
  /\ events = <<>>
  /\ pendingToolCalls = <<>>
  /\ debugResponses = <<>>
  /\ reports = <<>>
  /\ reportOutcome = "none"
  /\ thrown = <<>>
  /\ eventChunk = <<>>
  /\ handledCalls = <<>>
  /\ cancelSeenAt = 0
  /\ failure = <<>>
  /\ SchedulerIdle
  /\ LoggerIdle
  /\ InstanceIdle
  /\ DecoderIdle
  /\ RestIdle

(***************************************************************************)
(* Actions.                                                                *)
(***************************************************************************)
\* The caller's AbortController fires.
Abort ==
  /\ ~aborted
  /\ pc # "done"
  /\ aborted' = TRUE
  /\ UNCHANGED <<inputs, now, pc, idx, fcIdx, events, turn, reports,
                 reportOutcome, thrown, eventChunk, handledCalls,
                 cancelSeenAt, failure>>
  /\ UNCHANGED <<schedVars, loggerVars, instanceVars, decodeVars, restVars>>

\* Lines 156-161: sendMessageStream resolves to the stream.
SendResolves ==
  /\ pc = "start"
  /\ outcome.kind # "reject"
  /\ pc' = "read"
  /\ UNCHANGED <<inputs, aborted, now, idx, fcIdx, events, turn, reports,
                 reportOutcome, thrown, eventChunk, handledCalls,
                 cancelSeenAt, failure>>
  /\ UNCHANGED <<schedVars, loggerVars, instanceVars, decodeVars, restVars>>

\* Lines 156-161 and 207-238: sendMessageStream rejects.
SendRejects ==
  /\ pc = "start"
  /\ outcome.kind = "reject"
  /\ Catch(outcome.error)
  /\ UNCHANGED <<inputs, aborted, now, idx, fcIdx, turn, reportOutcome,
                 handledCalls, cancelSeenAt>>
  /\ UNCHANGED <<schedVars, loggerVars, instanceVars, decodeVars, restVars>>

\* Lines 163-205: the stream delivers its next chunk; the generator runs to
\* its next yield or back to awaiting the stream.
ReceiveChunk ==
  /\ pc = "read"
  /\ idx < Len(stream)
  /\ LET n == idx + 1
         resp == stream[n]
     IN /\ idx' = n
        /\ cancelSeenAt' =
             IF aborted /\ cancelSeenAt = 0 THEN n ELSE cancelSeenAt
        /\ debugResponses' = pushDebug(debugResponses, resp, abortedAtChunk)
        /\ IF abortedAtChunk
           THEN /\ Yield([type |-> UserCancelled], 0)
                /\ pc' = "cancelled"
                /\ UNCHANGED <<now, fcIdx, pendingToolCalls, handledCalls>>
           ELSE IF IsThoughtChunk(resp)
           THEN /\ Yield([type |-> Thought,
                          value |-> ThoughtSummary(resp.parts[1])], n)
                /\ pc' = "thought"
                /\ UNCHANGED <<now, fcIdx, pendingToolCalls, handledCalls>>
           ELSE IF YieldsContent(getResponseText(resp))
           THEN /\ Yield([type |-> Content,
                          value |-> getResponseText(resp).cs], n)
                /\ pc' = "content"
                /\ UNCHANGED <<now, fcIdx, pendingToolCalls, handledCalls>>
           ELSE HandleCallsFrom(n, 1)
  /\ UNCHANGED <<inputs, aborted, reports, reportOutcome, thrown, failure>>
  /\ UNCHANGED <<schedVars, loggerVars, instanceVars, decodeVars, restVars>>

\* Mutant: no continue after the Thought event; the chunk is classified on.
ResumeAfterThoughtFallsThrough ==
  /\ pc = "thought"
  /\ HandleCallsFrom(idx, 1)
  /\ UNCHANGED <<inputs, aborted, idx, debugResponses, reports,
                 reportOutcome, thrown, cancelSeenAt, failure>>
  /\ UNCHANGED <<schedVars, loggerVars, instanceVars, decodeVars, restVars>>

\* Line 190: continue after the Thought event.
ResumeAfterThought ==
  /\ pc = "thought"
  /\ pc' = "read"
  /\ UNCHANGED <<inputs, aborted, now, idx, fcIdx, events, turn, reports,
                 reportOutcome, thrown, eventChunk, handledCalls,
                 cancelSeenAt, failure>>
  /\ UNCHANGED <<schedVars, loggerVars, instanceVars, decodeVars, restVars>>

\* Lines 198-205: after the Content event, the function calls of the chunk.
ResumeAfterContent ==
  /\ pc = "content"
  /\ HandleCallsFrom(idx, 1)
  /\ UNCHANGED <<inputs, aborted, idx, debugResponses, reports,
                 reportOutcome, thrown, cancelSeenAt, failure>>
  /\ UNCHANGED <<schedVars, loggerVars, instanceVars, decodeVars, restVars>>

\* Lines 200-205: after a ToolCallRequest event, the next function call.
ResumeAfterToolCall ==
  /\ pc = "toolcall"
  /\ HandleCallsFrom(idx, fcIdx + 1)
  /\ UNCHANGED <<inputs, aborted, idx, debugResponses, reports,
                 reportOutcome, thrown, cancelSeenAt, failure>>
  /\ UNCHANGED <<schedVars, loggerVars, instanceVars, decodeVars, restVars>>

\* Mutant: no return after the UserCancelled event of line 165; the loop
\* goes on with the next chunk.
ResumeAfterCancelledContinues ==
  /\ pc = "cancelled"
  /\ pc' = IF failure # <<>> THEN "done" ELSE "read"
  /\ UNCHANGED <<inputs, aborted, now, idx, fcIdx, events, turn, reports,
                 reportOutcome, thrown, eventChunk, handledCalls,
                 cancelSeenAt, failure>>
  /\ UNCHANGED <<schedVars, loggerVars, instanceVars, decodeVars, restVars>>

\* Lines 167 and 215: return after the UserCancelled event.
ResumeAfterCancelled ==
  /\ pc = "cancelled"
  /\ pc' = "done"
  /\ UNCHANGED <<inputs, aborted, now, idx, fcIdx, events, turn, reports,
                 reportOutcome, thrown, eventChunk, handledCalls,
                 cancelSeenAt, failure>>
  /\ UNCHANGED <<schedVars, loggerVars, instanceVars, decodeVars, restVars>>

\* Line 163: the stream is exhausted, the generator completes.
StreamEnds ==
  /\ pc = "read"
  /\ idx = Len(stream)
  /\ outcome.kind = "end"
  /\ pc' = "done"
  /\ UNCHANGED <<inputs, aborted, now, idx, fcIdx, events, turn, reports,
                 reportOutcome, thrown, eventChunk, handledCalls,
                 cancelSeenAt, failure>>
  /\ UNCHANGED <<schedVars, loggerVars, instanceVars, decodeVars, restVars>>

\* Lines 163 and 207-238: reading the stream throws.
StreamThrows ==
  /\ pc = "read"
  /\ idx = Len(stream)
  /\ outcome.kind = "throw"
  /\ Catch(outcome.error)
  /\ UNCHANGED <<inputs, aborted, now, idx, fcIdx, turn, reportOutcome,
                 handledCalls, cancelSeenAt>>
  /\ UNCHANGED <<schedVars, loggerVars, instanceVars, decodeVars, restVars>>

\* Lines 219-236: reportError settles (the report is best effort: it
\* resolves whether or not the report could be written); the Error event
\* is built and yielded.
ReportSettles ==
  /\ pc = "reporting"
  /\ \E o \in ReportOutcomes : reportOutcome' = o
  /\ Yield([type |-> Error,
            value |-> [error |-> structuredError(Head(reports).error)]], 0)
  /\ pc' = "error"
  /\ UNCHANGED <<inputs, aborted, now, idx, fcIdx, turn, reports, thrown,
                 handledCalls, cancelSeenAt, failure>>
  /\ UNCHANGED <<schedVars, loggerVars, instanceVars, decodeVars, restVars>>

\* Line 237: return after the Error event.
ResumeAfterError ==
  /\ pc = "error"
  /\ pc' = "done"
  /\ UNCHANGED <<inputs, aborted, now, idx, fcIdx, events, turn, reports,
                 reportOutcome, thrown, eventChunk, handledCalls,
                 cancelSeenAt, failure>>
  /\ UNCHANGED <<schedVars, loggerVars, instanceVars, decodeVars, restVars>>

Next ==
  \/ Abort
  \/ SendResolves
  \/ SendRejects
  \/ ReceiveChunk
  \/ ResumeAfterThought
  \/ ResumeAfterContent
  \/ ResumeAfterToolCall
  \/ ResumeAfterCancelled
  \/ StreamEnds
  \/ StreamThrows
  \/ ReportSettles
  \/ ResumeAfterError

Spec == Init /\ [][Next]_vars

TypeOK ==
  /\ pc \in {"start", "read", "thought", "content", "toolcall", "cancelled",
             "reporting", "error", "done"}
  /\ idx \in 0..Len(stream)
  /\ Len(events) = Len(eventChunk)
  /\ Len(pendingToolCalls) = Len(handledCalls)

(***************************************************************************)
(* Vocabulary of the properties.                                           *)
(***************************************************************************)
IsPrefix(s, t) == Len(s) <= Len(t) /\ SubSeq(t, 1, Len(s)) = s

EventTypes == [i \in 1..Len(events) |-> events[i].type]
CountType(type) == Cardinality({i \in 1..Len(events) : events[i].type = type})
LastEventIs(type) == events # <<>> /\ events[Len(events)].type = type

\* The event types a chunk contributes when it is processed in full.
TypesOfChunk(resp) ==
  IF IsThoughtChunk(resp) THEN <<Thought>>
  ELSE (IF JoinTexts(resp.parts) # <<>> THEN <<Content>> ELSE <<>>)
         \o [k \in 1..Len(functionCallsOf(resp)) |-> ToolCallRequest]
RECURSIVE TypesOfChunks(_)
TypesOfChunks(n) ==
  IF n = 0 THEN <<>> ELSE TypesOfChunks(n - 1) \o TypesOfChunk(stream[n])

Failed == failure # <<>>
FailedWith == failure[1].error
FailedWhileAborted == failure[1].aborted
AuthFailure == Failed /\ FailedWith.cls = "UnauthorizedError"
OtherFailure == Failed /\ FailedWith.cls # "UnauthorizedError"

(***************************************************************************)
(* C1: if the cancellation signal is set when chunk k is received, run     *)
(* yields exactly one UserCancelled event, as its last event, and ends     *)
(* without throwing; no event belongs to chunk k or a later chunk, and the *)
(* events before UserCancelled are exactly those of chunks 1..k-1.         *)
(***************************************************************************)
C1_CancelledAtChunk ==
  cancelSeenAt > 0 =>
    /\ LastEventIs(UserCancelled)
    /\ CountType(UserCancelled) = 1
    /\ \A i \in 1..Len(events) : eventChunk[i] < cancelSeenAt
    /\ SubSeq(EventTypes, 1, Len(events) - 1) = TypesOfChunks(cancelSeenAt - 1)
    /\ pc \in {"cancelled", "done"}
    /\ thrown = <<>>
    /\ idx = cancelSeenAt

C1_Witness ==
  /\ cancelSeenAt = 2
  /\ pc = "done"
  /\ Len(events) >= 3
  /\ Len(stream) = 2

(***************************************************************************)
(* C2: a failure that is not an authorization error, caught while the      *)
(* signal is not set, is reported exactly once with the curated history    *)
(* followed by the request, and run then yields exactly one Error event    *)
(* with the failure's message and its numeric status (if any), and ends.   *)
(***************************************************************************)
C2_ErrorEventAndReport ==
  (OtherFailure /\ ~FailedWhileAborted) =>
    /\ reports = <<[error |-> FailedWith,
                    baseMessage |-> "Error when talking to Agent API",
                    context |-> history \o <<req>>,
                    type |-> "Turn.run-sendMessageStream"]>>
    /\ thrown = <<>>
    /\ pc \in {"reporting", "error", "done"}
    /\ CountType(UserCancelled) = 0
    /\ IF pc = "reporting" THEN CountType(Error) = 0
       ELSE /\ CountType(Error) = 1
            /\ LastEventIs(Error)
            /\ events[Len(events)].value.error.message = FailedWith.message
            /\ events[Len(events)].value.error.status =
                 (IF FailedWith.status.t = "number" THEN FailedWith.status
                  ELSE Undefined)

C2_Witness ==
  /\ OtherFailure
  /\ ~FailedWhileAborted
  /\ pc = "done"
  /\ FailedWith.status.t = "number"
  /\ history # <<>>
  /\ Len(events) >= 2

(***************************************************************************)
(* C3: an UnauthorizedError of the provider is rethrown to the caller of   *)
(* run: no Error event is yielded and no diagnostic report is issued.      *)
(***************************************************************************)
C3_UnauthorizedRethrown ==
  AuthFailure =>
    /\ thrown = <<FailedWith>>
    /\ pc = "done"
    /\ CountType(Error) = 0
    /\ reports = <<>>

C3_Witness ==
  /\ AuthFailure
  /\ thrown # <<>>
  /\ events # <<>>

(***************************************************************************)
(* C4, as claimed: whatever the failure, when the signal is set at the     *)
(* time the failure is caught, run yields UserCancelled instead of Error,  *)
(* does not throw and does not report.                                     *)
(***************************************************************************)
C4_Original ==
  (Failed /\ FailedWhileAborted) =>
    /\ LastEventIs(UserCancelled)
    /\ CountType(Error) = 0
    /\ thrown = <<>>
    /\ reports = <<>>

(***************************************************************************)
(* C4, amended: when a failure other than an authorization error is caught *)
(* while the signal is set, run yields UserCancelled instead of Error,     *)
(* ends without throwing and issues no report.                             *)
(***************************************************************************)
C4_CancelledFailure ==
  (OtherFailure /\ FailedWhileAborted) =>
    /\ LastEventIs(UserCancelled)
    /\ CountType(UserCancelled) = 1
    /\ CountType(Error) = 0
    /\ thrown = <<>>
    /\ reports = <<>>
    /\ pc \in {"cancelled", "done"}

C4_Witness ==
  /\ OtherFailure
  /\ FailedWhileAborted
  /\ pc = "done"
  /\ cancelSeenAt = 0

(***************************************************************************)
(* C5: for a stream of text-only chunks and a signal that is never set,    *)
(* the Content events are exactly the texts of the chunks with non-empty   *)
(* text, in arrival order, and there is no ToolCallRequest (or Thought)    *)
(* event.                                                                  *)
(***************************************************************************)
TextOnly(resp) ==
  /\ resp.parts # <<>>
  /\ \A i \in 1..Len(resp.parts) :
       ~resp.parts[i].thought /\ resp.parts[i].text.t = "text"
  /\ functionCallsOf(resp) = <<>>
TextOnlyStream == \A n \in 1..Len(stream) : TextOnly(stream[n])

RECURSIVE NonEmptyTexts(_)
NonEmptyTexts(n) ==
  IF n = 0 THEN <<>>
  ELSE NonEmptyTexts(n - 1)
         \o (IF JoinTexts(stream[n].parts) # <<>>
             THEN <<JoinTexts(stream[n].parts)>> ELSE <<>>)

IsContentEvent(e) == e.type = Content
ContentValues ==
  LET cs == SelectSeq(events, IsContentEvent)
  IN [i \in 1..Len(cs) |-> cs[i].value]

C5_TextOnlyContent ==
  (TextOnlyStream /\ ~aborted) =>
    /\ ContentValues = NonEmptyTexts(idx)
    /\ CountType(ToolCallRequest) = 0
    /\ CountType(Thought) = 0
    /\ \A i \in 1..Len(events) : events[i].type \in {Content, Error}

C5_Witness ==
  /\ TextOnlyStream
  /\ ~aborted
  /\ pc = "done"
  /\ outcome.kind = "end"
  /\ Len(stream) = 2
  /\ Len(events) = 1
  /\ Len(debugResponses) = 2

(***************************************************************************)
(* Tool call requests: the values of the ToolCallRequest events, and the   *)
(* function calls of the chunks received so far, in arrival order.         *)
(***************************************************************************)
IsToolCallRequestEvent(e) == e.type = ToolCallRequest
RequestsYielded ==
  LET rs == SelectSeq(events, IsToolCallRequestEvent)
  IN [i \in 1..Len(rs) |-> rs[i].value]

RECURSIVE CallsOfChunks(_)
CallsOfChunks(n) ==
  IF n = 0 THEN <<>>
  ELSE CallsOfChunks(n - 1)
         \o (IF IsThoughtChunk(stream[n]) THEN <<>>
             ELSE functionCallsOf(stream[n]))

(***************************************************************************)
(* C6, as claimed: the callIds of the ToolCallRequests of one turn are     *)
(* pairwise distinct, with or without provider-supplied ids.               *)
(***************************************************************************)
C6_Original ==
  \A i, j \in 1..Len(pendingToolCalls) :
    i # j => pendingToolCalls[i].callId # pendingToolCalls[j].callId

(***************************************************************************)
(* C7: every ToolCallRequest yielded and every entry of pendingToolCalls   *)
(* has a non-empty name, an args mapping and isClientInitiated false; a    *)
(* missing name gives "undefined_tool_name", missing args give {}.         *)
(***************************************************************************)
WellFormedRequest(r) ==
  /\ r.name.t = "string"
  /\ r.name.s # ""
  /\ r.args.t = "object"
  /\ r.isClientInitiated = FALSE

DefaultsApplied(r, fnCall) ==
  /\ fnCall.name.t = "undefined" => r.name = Str("undefined_tool_name")
  /\ fnCall.args.t = "undefined" => r.args = Obj({})

C7_RequestDefaults ==
  /\ Len(RequestsYielded) = Len(handledCalls)
  /\ \A i \in 1..Len(RequestsYielded) :
       /\ WellFormedRequest(RequestsYielded[i])
       /\ DefaultsApplied(RequestsYielded[i], handledCalls[i])
  /\ \A i \in 1..Len(pendingToolCalls) : WellFormedRequest(pendingToolCalls[i])

C7_Witness ==
  \E i, j \in 1..Len(pendingToolCalls) :
    /\ handledCalls[i].name.t = "undefined"
    /\ handledCalls[i].args.t = "undefined"
    /\ handledCalls[j].name = Str("")
    /\ pendingToolCalls[i].name = Str("undefined_tool_name")
    /\ pendingToolCalls[i].args = Obj({})

(***************************************************************************)
(* C8: events are yielded in the order their chunks arrive, the            *)
(* ToolCallRequest events of a chunk in the order of its functionCalls;    *)
(* the requests yielded so far are a prefix of pendingToolCalls, which     *)
(* holds them in the same order and is never shortened or reordered.       *)
(***************************************************************************)
CarriesCall(r, fnCall) ==
  /\ fnCall.id.t = "string" => r.callId = fnCall.id.s
  /\ Truthy(fnCall.name) => r.name = fnCall.name
  /\ Truthy(fnCall.args) => r.args = fnCall.args

InCallOrder(rs) ==
  LET calls == CallsOfChunks(idx)
  IN /\ Len(rs) <= Len(calls)
     /\ \A i \in 1..Len(rs) : CarriesCall(rs[i], calls[i])

\* The events that belong to a chunk come first, by increasing chunk.
ChunkOrder ==
  \A i \in 1..(Len(events) - 1) :
    eventChunk[i + 1] # 0 =>
      (eventChunk[i] # 0 /\ eventChunk[i] <= eventChunk[i + 1])

ChunkEventTypes ==
  LET n == Cardinality({i \in 1..Len(events) : eventChunk[i] # 0})
  IN SubSeq(EventTypes, 1, n)

OrderedEvents ==
  LET yielded == RequestsYielded
  IN /\ ChunkOrder
     /\ IsPrefix(ChunkEventTypes, TypesOfChunks(idx))
     /\ InCallOrder(yielded)
     /\ InCallOrder(pendingToolCalls)
     /\ IsPrefix(yielded, pendingToolCalls)

C8_ArrivalOrder ==
  /\ []OrderedEvents
  /\ [][IsPrefix(pendingToolCalls, pendingToolCalls')]_vars

C8_Witness ==
  /\ Len(pendingToolCalls) >= 3
  /\ idx = 2
  /\ pc = "done"
  /\ CountType(Content) >= 1
  /\ pendingToolCalls[1] # pendingToolCalls[2]

(***************************************************************************)
(* C9: debugResponses is append-only and always equals the chunks that     *)
(* passed the cancellation check, in arrival order: it holds every chunk   *)
(* that produced an event and never the chunk on which cancellation was    *)
(* detected.                                                               *)
(***************************************************************************)
PassedCheck == IF cancelSeenAt > 0 THEN cancelSeenAt - 1 ELSE idx

DebugLogExact ==
  /\ debugResponses = SubSeq(stream, 1, PassedCheck)
  /\ \A i \in 1..Len(events) :
       eventChunk[i] # 0 =>
         /\ eventChunk[i] <= Len(debugResponses)
         /\ debugResponses[eventChunk[i]] = stream[eventChunk[i]]
  /\ cancelSeenAt > 0 => Len(debugResponses) < cancelSeenAt

C9_DebugResponses ==
  /\ []DebugLogExact
  /\ [][IsPrefix(debugResponses, debugResponses')]_vars

C9_Witness ==
  /\ cancelSeenAt = 2
  /\ pc = "done"
  /\ Len(debugResponses) = 1
  /\ Len(events) >= 2

(***************************************************************************)
(* C10: after a failure other than an authorization error, run never       *)
(* throws to its caller and ends with a terminal event (Error or           *)
(* UserCancelled), whether or not the diagnostic report could be written.  *)
(***************************************************************************)
C10_TerminalEventNoThrow ==
  OtherFailure =>
    /\ thrown = <<>>
    /\ pc \in {"reporting", "error", "cancelled", "done"}
    /\ pc # "reporting" => (LastEventIs(Error) \/ LastEventIs(UserCancelled))
    /\ reportOutcome # "none" => LastEventIs(Error)

C10_Witness ==
  /\ OtherFailure
  /\ pc = "done"
  /\ reportOutcome = "not_written"
  /\ LastEventIs(Error)

(***************************************************************************)
(* The tool call scheduler (spec 3, 4.4 and 5).  Its source file,          *)
(* core/coreToolScheduler.ts, is only imported (turn.ts line 276); the     *)
(* request and response records are those of turn.ts lines 62-74.  The     *)
(* lifecycle, the confirmation policies and the cancellation rule follow   *)
(* the specification of the scheduler.                                     *)
(***************************************************************************)
MaxBatch == 2

TurnIdle ==
  /\ stream = <<>>
  /\ outcome = [kind |-> "end"]
  /\ history = <<>>
  /\ req = HistoryEntry("user", "Hi")
  /\ aborted = FALSE
  /\ now = 0
  /\ pc = "done"
  /\ idx = 0
  /\ fcIdx = 0
  /\ events = <<>>
  /\ pendingToolCalls = <<>>
  /\ debugResponses = <<>>
  /\ reports = <<>>
  /\ reportOutcome = "none"
  /\ thrown = <<>>
  /\ eventChunk = <<>>
  /\ handledCalls = <<>>
  /\ cancelSeenAt = 0
  /\ failure = <<>>

\* Per-tool confirmation policy: auto-approve, prompt the user, reject.  A
\* tool the registry does not know fails validation.
ToolPolicies ==
  [read_file |-> "auto", write_file |-> "prompt", blocked |-> "reject",
   no_such_tool |-> "unknown"]
ToolNames == DOMAIN ToolPolicies

\* turn.ts lines 62-67 (callId and name of ToolCallRequestInfo).
ToolCallRequestInfo(callId, name) == [callId |-> callId, name |-> name]

\* The requests a batch is made of; call ids may repeat within a batch.
RequestPool ==
  { ToolCallRequestInfo("call-1", "read_file"),
    ToolCallRequestInfo("call-2", "write_file"),
    ToolCallRequestInfo("call-1", "blocked"),
    ToolCallRequestInfo("call-2", "no_such_tool") }
Batches == UNION {[1..k -> RequestPool] : k \in 1..MaxBatch}

\* The answers to a prompt: proceed, proceed with the edited call, cancel.
PromptAnswers == {"ProceedOnce", "ModifyWithEditor", "Cancel"}

TerminalStatuses == {"success", "error", "cancelled"}
Statuses ==
  {"validating", "awaiting_confirmation", "scheduled", "executing"}
    \cup TerminalStatuses

ToolCall(request) ==
  [request |-> request, status |-> "validating", outcome |-> "none"]

\* turn.ts lines 69-74 (ToolCallResponseInfo): the response of the call at
\* position i of the batch carries the call id of its request; a call that
\* did not succeed gets a synthesized error response.
responseFor(i, request, status) ==
  [callId |-> request.callId, index |-> i, error |-> status # "success"]

\* Mutant: a cancelled call leaves no response.
settleUnlessCancelled(i, status) ==
  /\ toolCalls' = [toolCalls EXCEPT ![i].status = status]
  /\ completed' =
       IF status = "cancelled" THEN completed
       ELSE Append(completed, responseFor(i, toolCalls[i].request, status))

\* A call becomes terminal and its response joins the response set.
settle(i, status) ==
  /\ toolCalls' = [toolCalls EXCEPT ![i].status = status]
  /\ completed' =
       Append(completed, responseFor(i, toolCalls[i].request, status))

\* Mutant: executions are started whatever the signal says.
mayStartAlways(signal) == TRUE

\* The signal is checked before a tool execution is started.
mayStart(signal) == ~signal

InitScheduler ==
  /\ TurnIdle
  /\ SchedulerIdle
  /\ LoggerIdle
  /\ InstanceIdle
  /\ DecoderIdle
  /\ RestIdle

\* The caller submits the full batch of one Turn.
Schedule ==
  /\ toolCalls = <<>>
  /\ \E batch \in Batches :
       toolCalls' = [i \in 1..Len(batch) |-> ToolCall(batch[i])]
  /\ UNCHANGED <<completed, schedSignal, cancelObserved>>
  /\ UNCHANGED <<turnVars, loggerVars, instanceVars, decodeVars, restVars>>

\* validating: the tool is looked up and its confirmation policy resolved.
Validate ==
  /\ \E i \in 1..Len(toolCalls) :
       /\ toolCalls[i].status = "validating"
       /\ LET policy == ToolPolicies[toolCalls[i].request.name]
          IN IF policy = "unknown" THEN settle(i, "error")
             ELSE IF policy = "reject" THEN settle(i, "cancelled")
             ELSE /\ toolCalls' =
                       [toolCalls EXCEPT ![i].status =
                          IF policy = "auto" THEN "scheduled"
                          ELSE "awaiting_confirmation"]
                  /\ UNCHANGED completed
  /\ UNCHANGED <<schedSignal, cancelObserved>>
  /\ UNCHANGED <<turnVars, loggerVars, instanceVars, decodeVars, restVars>>

\* awaiting_confirmation: the user answers; the outcome is recorded once.
Confirm ==
  /\ \E i \in 1..Len(toolCalls), o \in PromptAnswers :
       /\ toolCalls[i].status = "awaiting_confirmation"
       /\ IF o = "Cancel"
          THEN /\ toolCalls' = [toolCalls EXCEPT ![i].status = "cancelled",
                                                 ![i].outcome = o]
               /\ completed' =
                    Append(completed,
                           responseFor(i, toolCalls[i].request, "cancelled"))
          ELSE /\ toolCalls' = [toolCalls EXCEPT ![i].status = "scheduled",
                                                 ![i].outcome = o]
               /\ UNCHANGED completed
  /\ UNCHANGED <<schedSignal, cancelObserved>>
  /\ UNCHANGED <<turnVars, loggerVars, instanceVars, decodeVars, restVars>>

\* scheduled: the signal is checked; the execution starts, or the call is
\* cancelled because the signal is set.
StartExecution ==
  /\ \E i \in 1..Len(toolCalls) :
       /\ toolCalls[i].status = "scheduled"
       /\ IF mayStart(schedSignal)
          THEN /\ toolCalls' = [toolCalls EXCEPT ![i].status = "executing"]
               /\ UNCHANGED completed
          ELSE settle(i, "cancelled")
  /\ cancelObserved' = (cancelObserved \/ schedSignal)
  /\ UNCHANGED schedSignal
  /\ UNCHANGED <<turnVars, loggerVars, instanceVars, decodeVars, restVars>>

\* executing: the tool returns or throws; the signal does not interrupt it.
FinishExecution ==
  /\ \E i \in 1..Len(toolCalls), result \in {"success", "error"} :
       /\ toolCalls[i].status = "executing"
       /\ settle(i, result)
  /\ UNCHANGED <<schedSignal, cancelObserved>>
  /\ UNCHANGED <<turnVars, loggerVars, instanceVars, decodeVars, restVars>>

\* The shared cancellation signal fires.
SignalFires ==
  /\ toolCalls # <<>>
  /\ ~schedSignal
  /\ schedSignal' = TRUE
  /\ UNCHANGED <<toolCalls, completed, cancelObserved>>
  /\ UNCHANGED <<turnVars, loggerVars, instanceVars, decodeVars, restVars>>

\* The steps the scheduler takes by itself; Confirm is the user's.
SchedulerStep ==
  \/ Validate
  \/ StartExecution
  \/ FinishExecution

NextScheduler ==
  \/ Schedule
  \/ Validate
  \/ Confirm
  \/ StartExecution
  \/ FinishExecution
  \/ SignalFires

SpecScheduler == InitScheduler /\ [][NextScheduler]_vars

\* The event loop runs every step of the scheduler that is ready.  Nothing
\* makes the user answer a prompt: Confirm is not a fair action.
FairSpecScheduler == SpecScheduler /\ WF_vars(SchedulerStep)

\* Every prompt that stays open is answered in the end.
PromptsAnswered == WF_vars(Confirm)

IsTerminal(i) == toolCalls[i].status \in TerminalStatuses
ResponsesOf(i) == {k \in 1..Len(completed) : completed[k].index = i}
AllSettled == toolCalls # <<>> /\ \A i \in 1..Len(toolCalls) : IsTerminal(i)

\* A terminal call has exactly one response, with the call id of its
\* request; a call that is not terminal has none.
ResponsesMatch ==
  \A i \in 1..Len(toolCalls) :
    /\ Cardinality(ResponsesOf(i)) = (IF IsTerminal(i) THEN 1 ELSE 0)
    /\ \A k \in ResponsesOf(i) :
         completed[k].callId = toolCalls[i].request.callId

\* A terminal status is never left, and the batch and the responses stay.
TerminalIsFinal ==
  /\ toolCalls # <<>> => Len(toolCalls') = Len(toolCalls)
  /\ \A i \in 1..Len(toolCalls) :
       /\ toolCalls'[i].request = toolCalls[i].request
       /\ IsTerminal(i) => toolCalls'[i].status = toolCalls[i].status
  /\ IsPrefix(completed, completed')

\* The claim as stated: every call of a batch becomes terminal, whether
\* the user answers the prompts or not.
C11_Original ==
  /\ []ResponsesMatch
  /\ [][TerminalIsFinal]_vars
  /\ (toolCalls # <<>>) ~> AllSettled

\* Every call that is not terminal waits for the user's answer.
AwaitingUser ==
  /\ toolCalls # <<>>
  /\ \A i \in 1..Len(toolCalls) :
       IsTerminal(i) \/ toolCalls[i].status = "awaiting_confirmation"

(***************************************************************************)
(* C11: a call of a batch handed to the scheduler has at most one terminal *)
(* status among success, error and cancelled and never leaves it; exactly  *)
(* one response is produced per terminal call, rejected and cancelled ones *)
(* included, carrying the call id of its request, and none for a call that *)
(* is not terminal.  The scheduler brings every call to a terminal status  *)
(* or to its prompt, and when every prompt is answered every call of the   *)
(* batch becomes terminal.                                                 *)
(***************************************************************************)
C11_OneTerminalOneResponse ==
  /\ []ResponsesMatch
  /\ [][TerminalIsFinal]_vars
  /\ (toolCalls # <<>>) ~> AwaitingUser
  /\ PromptsAnswered => ((toolCalls # <<>>) ~> AllSettled)

\* A batch of two calls with the same call id, one rejected by policy and
\* one executed, both answered.
C11_Witness ==
  /\ AllSettled
  /\ Len(toolCalls) = 2
  /\ toolCalls[1].request.callId = toolCalls[2].request.callId
  /\ toolCalls[1].request.name = "blocked"
  /\ toolCalls[1].status = "cancelled"
  /\ toolCalls[2].status = "success"
  /\ Len(completed) = 2

\* No execution is started once the signal has been seen set.
NoStartAfterObserved ==
  cancelObserved =>
    \A i \in 1..Len(toolCalls) :
      toolCalls'[i].status = "executing" => toolCalls[i].status = "executing"

\* An execution that has started ends as success or error, and its result
\* joins the response set in the same step.
StartedRunsToCompletion ==
  \A i \in 1..Len(toolCalls) :
    (toolCalls[i].status = "executing" /\ toolCalls'[i].status # "executing")
      => /\ toolCalls'[i].status \in {"success", "error"}
         /\ completed' =
              Append(completed,
                     responseFor(i, toolCalls[i].request,
                                 toolCalls'[i].status))

Executing == {i \in 1..Len(toolCalls) : toolCalls[i].status = "executing"}

(***************************************************************************)
(* C12: once the scheduler has observed the cancellation signal it starts  *)
(* no new tool execution, while every execution already started runs to    *)
(* completion and its result is attached to the response set.              *)
(***************************************************************************)
C12_NoNewExecutionAfterCancel ==
  /\ [][NoStartAfterObserved /\ StartedRunsToCompletion]_vars
  /\ \A i \in 1..MaxBatch :
       (i \in Executing) ~> (i <= Len(toolCalls) /\ IsTerminal(i))

\* The signal was observed while one call was executing: that call ended
\* with its result, the other one was cancelled without being started.
C12_Witness ==
  /\ cancelObserved
  /\ Len(toolCalls) = 2
  /\ toolCalls[1].status = "success"
  /\ toolCalls[2].status = "cancelled"
  /\ toolCalls[2].request.name = "read_file"
  /\ Len(completed) = 2
  /\ completed[1].index = 2
  /\ completed[2].index = 1


(***************************************************************************)
(* ClearcutLogger.decodeLogResponse (part_003 lines 153-190).              *)
(***************************************************************************)
MaxBufLen == 3
MaxVarintLen == 8

\* The bytes the buffers are made of: with and without the continuation
\* bit, the marker 8 and the marker with the continuation bit.
ByteValues == {0, 1, 8, 128, 136, 150}
Buffers == SeqsUpTo(ByteValues, MaxBufLen)

\* Longer bodies: the marker and a varint of up to MaxVarintLen bytes, the
\* last of which ends it.
ContinuedBytes == {128, 129, 255}
FinalBytes == {0, 1, 32, 127}
Varints ==
  UNION {{<<8>> \o front \o <<last>> :
            front \in [1..(n - 1) -> ContinuedBytes], last \in FinalBytes}
           : n \in 1..MaxVarintLen}

LogResponse(ms) == [t |-> "object", nextRequestWaitMs |-> ms]
RangeError == [t |-> "throw"]

\* Buffer.readUInt8: the byte at a zero-based offset, or a RangeError
\* outside of the buffer.
readUInt8(b, offset) ==
  IF offset + 1 <= Len(b) THEN [ok |-> TRUE, value |-> b[offset + 1]]
  ELSE [ok |-> FALSE, value |-> 0]

\* An integer of any size (a BigInt, or the integer a Number holds) is the
\* sequence of its groups of 7 bits, least significant group first, without
\* zero groups at the high end; BitsOf is the set of positions of its one
\* bits.
BitsOf(groups) ==
  {p \in 0..(7 * Len(groups) - 1) :
     (groups[p \div 7 + 1] \div 2^(p % 7)) % 2 = 1}
GroupAt(bits, i) ==
  LET B(j) == IF 7 * (i - 1) + j \in bits THEN 2^j ELSE 0
  IN B(0) + B(1) + B(2) + B(3) + B(4) + B(5) + B(6)
GroupsOf(bits) ==
  IF bits = {} THEN <<>>
  ELSE [i \in 1..(Maximum(bits) \div 7 + 1) |-> GroupAt(bits, i)]

\* Number(ms): the double nearest to the integer, ties to even.  A double
\* holds 53 significant bits; the k bits below them are rounded away.
Number(ms) ==
  LET bits == BitsOf(ms)
  IN IF bits = {} THEN <<>>
     ELSE IF Maximum(bits) < 53 THEN GroupsOf(bits)
     ELSE LET k == Maximum(bits) - 52
              T == {p - k : p \in {q \in bits : q >= k}}
              guard == (k - 1) \in bits
              sticky == \E q \in bits : q < k - 1
              roundUp == guard /\ (sticky \/ 0 \in T)
              z == Minimum({p \in 0..53 : p \notin T})
              R == IF roundUp THEN {p \in T : p > z} \cup {z} ELSE T
          IN GroupsOf({p + k : p \in R})

\* Mutant: the groups are put together most significant first.
withGroupInFront(ms, i, group) == <<group>> \o ms

\* Line 176: ms |= BigInt(byte & 0x7f) << BigInt(7 * (i - 1)).  Byte i is
\* the first to write the bits 7*(i-1) and up of ms: its data bits become
\* group i of ms.
withGroup(ms, i, group) == Append(ms, group)

\* Lines 174-178: the loop from index i on.
RECURSIVE varintLoop(_, _, _, _)
varintLoop(b, i, ms, cont) ==
  IF cont /\ i < Len(b)
  THEN LET byte == readUInt8(b, i).value
       IN varintLoop(b, i + 1, withGroup(ms, i, byte % 128),
                     byte \div 128 # 0)
  ELSE [ms |-> ms, cont |-> cont]

\* Mutant: a varint without a terminating byte is accepted.
unterminatedNever(cont) == FALSE

\* Line 180: if (cont).
unterminated(cont) == cont

decodeLogResponse(b) ==
  IF Len(b) < 1 THEN Undefined
  ELSE IF ~readUInt8(b, 0).ok THEN RangeError
  ELSE IF readUInt8(b, 0).value # 8 THEN Undefined
  ELSE LET r == varintLoop(b, 1, <<>>, TRUE)
       IN IF unterminated(r.cont) THEN Undefined
          ELSE LogResponse(Number(r.ms))

InitDecode ==
  /\ TurnIdle
  /\ SchedulerIdle
  /\ LoggerIdle
  /\ InstanceIdle
  /\ RestIdle
  /\ buf \in Buffers \cup Varints
  /\ decoded = <<>>

\* The buffer is decoded.
Decode ==
  /\ decoded = <<>>
  /\ decoded' = <<decodeLogResponse(buf)>>
  /\ UNCHANGED buf
  /\ UNCHANGED <<turnVars, schedVars, loggerVars, instanceVars, restVars>>

NextDecode == Decode

SpecDecode == InitDecode /\ [][NextDecode]_vars

HasContinuationBit(byte) == byte >= 128
NoValue == decoded # <<>> /\ decoded[1].t = "undefined"

\* The claim as stated: no value for each buffer whose final byte has its
\* continuation bit set.
C20_Original ==
  (decoded # <<>> /\ buf # <<>> /\ HasContinuationBit(buf[Len(buf)]))
    => NoValue

\* After the marker 8, no byte ends the varint.
Unterminated ==
  /\ buf # <<>>
  /\ buf[1] = 8
  /\ \A i \in 2..Len(buf) : HasContinuationBit(buf[i])

(***************************************************************************)
(* C20: decodeLogResponse returns no value, without throwing, for the      *)
(* empty buffer, for every buffer whose first byte is not 8, and for every *)
(* buffer that starts with 8 and in which every following byte has its     *)
(* continuation bit set (the varint is not terminated).                    *)
(***************************************************************************)
C20_NoValue ==
  decoded # <<>> =>
    /\ decoded[1].t # "throw"
    /\ (buf = <<>> \/ buf[1] # 8 \/ Unterminated) => NoValue

\* A varint of two bytes, both with the continuation bit, decoded.
C20_Witness ==
  /\ NoValue
  /\ buf = <<8, 150, 128>>


(***************************************************************************)
(* ClearcutLogger.getInstance (part_003 lines 38-56).                      *)
(***************************************************************************)
MaxGetInstance == 4

\* A Config as getInstance sees it; the argument is <<>> (undefined) or
\* <<config>>.
Config(name, usageStatisticsEnabled) ==
  [name |-> name, usageStatisticsEnabled |-> usageStatisticsEnabled]
ConfigArgs ==
  {<<>>, <<Config("a", TRUE)>>, <<Config("b", TRUE)>>, <<Config("c", FALSE)>>}

\* Mutant: only an absent config is refused.
refusesOnlyUndefined(config) == config = <<>>

\* Lines 50-51: config === undefined || !config?.getUsageStatisticsEnabled().
refuses(config) == config = <<>> \/ ~config[1].usageStatisticsEnabled

\* Lines 45-47: the constructor; the number tells the objects apart.
NewClearcutLogger(config, number) == [config |-> config[1], number |-> number]

InitInstance ==
  /\ TurnIdle
  /\ SchedulerIdle
  /\ LoggerIdle
  /\ InstanceIdle
  /\ DecoderIdle
  /\ RestIdle

\* Lines 49-56: a call of getInstance.
getInstance ==
  /\ Len(returned) < MaxGetInstance
  /\ \E config \in ConfigArgs :
       IF refuses(config)
       THEN /\ returned' = Append(returned, [config |-> config,
                                             result |-> <<>>,
                                             constructed |-> FALSE])
            /\ UNCHANGED <<instance, constructions>>
       ELSE LET created == instance = <<>>
                logger ==
                  IF created
                  THEN NewClearcutLogger(config, Len(constructions) + 1)
                  ELSE instance[1]
            IN /\ instance' = <<logger>>
               /\ constructions' =
                    IF created THEN Append(constructions, config[1])
                    ELSE constructions
               /\ returned' = Append(returned, [config |-> config,
                                                result |-> <<logger>>,
                                                constructed |-> created])
  /\ UNCHANGED <<turnVars, schedVars, loggerVars, decodeVars, restVars>>

NextInstance == getInstance

SpecInstance == InitInstance /\ [][NextInstance]_vars

OptedOut(call) ==
  call.config = <<>> \/ ~call.config[1].usageStatisticsEnabled
Calls(P(_)) == {k \in 1..Len(returned) : P(returned[k])}
OptedIn(call) == ~OptedOut(call)
Constructing(call) == call.constructed

(***************************************************************************)
(* C18: the telemetry logger is constructed at most once; getInstance      *)
(* returns no logger, and constructs none, whenever the config is absent   *)
(* or has usage statistics disabled, also when an instance exists; every   *)
(* call with usage statistics enabled returns the same instance.           *)
(***************************************************************************)
C18_Singleton ==
  /\ Len(constructions) <= 1
  /\ Cardinality(Calls(Constructing)) = Len(constructions)
  /\ \A k \in Calls(OptedOut) :
       returned[k].result = <<>> /\ ~returned[k].constructed
  /\ \A k \in Calls(OptedIn) :
       returned[k].result # <<>> /\ returned[k].result = instance
  /\ \A j, k \in Calls(OptedIn) : returned[j].result = returned[k].result

\* An instance exists; a call without config and one with statistics
\* disabled got nothing, and a call with another enabled config got the
\* instance made for the first.
C18_Witness ==
  /\ Len(returned) = 4
  /\ returned[1].config = <<Config("a", TRUE)>>
  /\ returned[2].config = <<>>
  /\ returned[3].config = <<Config("c", FALSE)>>
  /\ returned[4].config = <<Config("b", TRUE)>>
  /\ returned[4].result = returned[1].result
  /\ returned[4].result[1].config.name = "a"


(***************************************************************************)
(* ClearcutLogger: the pending queue and its flushes (part_003 lines       *)
(* 58-151 and 192-419).  flushToClearcut is an async function: it runs     *)
(* synchronously up to its first await (line 96), so a call of a log       *)
(* method is one step that ends with the flush waiting for the account     *)
(* id; the lookup and the POST settle in later steps.                      *)
(***************************************************************************)
MaxLogCalls == 2
MaxTicks == 1

\* Line 43.
flush_interval_ms == 1000 * 60

\* Lines 23-29.
start_session_event_name == "start_session"
new_prompt_event_name == "new_prompt"
tool_call_event_name == "tool_call"
api_request_event_name == "api_request"
api_response_event_name == "api_response"
api_error_event_name == "api_error"
end_session_event_name == "end_session"

\* The response bodies of the collector: a wait of 150 ms, and a body that
\* cannot be decoded.
ResponseBodies == {<<8, 150, 1>>, <<9>>}

\* Date.now() moves on by a flush interval.
Tick ==
  /\ clockMs < MaxTicks * flush_interval_ms
  /\ clockMs' = clockMs + flush_interval_ms
  /\ UNCHANGED <<logEvents, last_flush_time, flushes, logCalls, lastCall,
                 enqueued>>
  /\ UNCHANGED <<turnVars, schedVars, instanceVars, decodeVars, restVars>>

\* Lines 68-76: createLogEvent; the data of the event is told apart by the
\* number of the event.
createLogEvent(name, data) ==
  [console_type |-> "AGENT_CLI", application |-> 102, event_name |-> name,
   event_metadata |-> data]

\* Mutant: the new entry is put in front of the queue.
enqueueLogEventAtFront(queue, event) ==
  <<<<[source_extension_json |-> event]>>>> \o queue

\* Lines 59-66: enqueueLogEvent pushes an array of one record.  Of the
\* record only the event is kept: event_time_ms is written here and read
\* nowhere in the logger.
enqueueLogEvent(queue, event) ==
  Append(queue, <<[source_extension_json |-> event]>>)

\* Mutant: the queue is not cleared when the snapshot is taken.
clearedLater(queue) == queue

\* Line 94: this.events.length = 0.
cleared(queue) == <<>>

\* Mutant: the failed batch is pushed to the back of the queue.
restoredAtBack(queue, eventsToSend) == queue \o eventsToSend

\* Line 131: this.events.unshift(...eventsToSend).
restored(queue, eventsToSend) == eventsToSend \o queue

\* Mutant: the end of session flush is left without a catch handler.
attachesCatchButAtEnd(method) ==
  method \notin {"logEndSessionEvent", "shutdown"}

\* Lines 84, 257, 271, 305, 319, 370, 396, 411: every call of
\* flushToClearcut is followed by .catch.
attachesCatch(method) == TRUE

\* How the promise of flushToClearcut stands.  A rejected lookup rejects it
\* (line 96 is outside of the promise chain); a transport error is caught
\* by the chain (lines 145-150); a response fulfils it (lines 136-144).
settlement(stage) ==
  IF stage \in {"lookup", "post"} THEN "pending"
  ELSE IF stage = "lookup_error" THEN "rejected"
  ELSE "fulfilled"

\* Lines 89-96: flushToClearcut up to its first await, called by method on
\* the queue as it stands; eventsToSend is [...this.events].
startFlush(queue, method) ==
  /\ flushes' = Append(flushes, [batch |-> queue,
                                 stage |-> "lookup",
                                 caught |-> attachesCatch(method)])
  /\ logEvents' = cleared(queue)

called(method, flushed) ==
  /\ logCalls' = logCalls + 1
  /\ lastCall' = <<[method |-> method,
                    elapsed |-> clockMs - last_flush_time,
                    flushed |-> flushed]>>

\* The body the log methods share: enqueueLogEvent(createLogEvent(name,
\* data)) and then flushToClearcut().catch(...).
logEvent(method, name) ==
  /\ startFlush(enqueueLogEvent(logEvents,
                                createLogEvent(name, enqueued + 1)),
                method)
  /\ called(method, TRUE)
  /\ enqueued' = enqueued + 1
  /\ UNCHANGED <<last_flush_time, clockMs>>
  /\ UNCHANGED <<turnVars, schedVars, instanceVars, decodeVars, restVars>>

InitLogger ==
  /\ TurnIdle
  /\ SchedulerIdle
  /\ LoggerIdle
  /\ InstanceIdle
  /\ DecoderIdle
  /\ RestIdle

\* Lines 192-260.
logStartSessionEvent ==
  /\ logCalls < MaxLogCalls
  /\ logEvent("logStartSessionEvent", start_session_event_name)

\* Lines 262-274.
logNewPromptEvent ==
  /\ logCalls < MaxLogCalls
  /\ logEvent("logNewPromptEvent", new_prompt_event_name)

\* Lines 276-308.
logToolCallEvent ==
  /\ logCalls < MaxLogCalls
  /\ logEvent("logToolCallEvent", tool_call_event_name)

\* Lines 310-322.
logApiRequestEvent ==
  /\ logCalls < MaxLogCalls
  /\ logEvent("logApiRequestEvent", api_request_event_name)

\* Lines 324-373.
logApiResponseEvent ==
  /\ logCalls < MaxLogCalls
  /\ logEvent("logApiResponseEvent", api_response_event_name)

\* Lines 375-399.
logApiErrorEvent ==
  /\ logCalls < MaxLogCalls
  /\ logEvent("logApiErrorEvent", api_error_event_name)

\* Lines 401-414.
logEndSessionEvent ==
  /\ logCalls < MaxLogCalls
  /\ logEvent("logEndSessionEvent", end_session_event_name)

\* Mutant: shutdown enqueues the event and leaves the flush to the gate.
shutdownGated ==
  /\ logCalls < MaxLogCalls
  /\ LET queue == enqueueLogEvent(logEvents,
                                  createLogEvent(end_session_event_name,
                                                 enqueued + 1))
     IN IF clockMs - last_flush_time < flush_interval_ms
        THEN /\ logEvents' = queue
             /\ called("shutdown", FALSE)
             /\ UNCHANGED flushes
        ELSE /\ startFlush(queue, "shutdown")
             /\ called("shutdown", TRUE)
  /\ enqueued' = enqueued + 1
  /\ UNCHANGED <<last_flush_time, clockMs>>
  /\ UNCHANGED <<turnVars, schedVars, instanceVars, decodeVars, restVars>>

\* Lines 416-419: shutdown logs an EndSessionEvent.
shutdown ==
  /\ logCalls < MaxLogCalls
  /\ logEvent("shutdown", end_session_event_name)

\* Lines 78-87.
flushIfNeeded ==
  /\ logCalls < MaxLogCalls
  /\ IF clockMs - last_flush_time < flush_interval_ms
     THEN /\ called("flushIfNeeded", FALSE)
          /\ UNCHANGED <<logEvents, flushes>>
     ELSE /\ startFlush(logEvents, "flushIfNeeded")
          /\ called("flushIfNeeded", TRUE)
  /\ UNCHANGED <<last_flush_time, clockMs, enqueued>>
  /\ UNCHANGED <<turnVars, schedVars, instanceVars, decodeVars, restVars>>

\* Lines 96-124: getGoogleAccountId resolves and the request is sent; the
\* id only shapes user_info of the request body.
AccountIdResolves ==
  /\ \E a \in 1..Len(flushes) :
       /\ flushes[a].stage = "lookup"
       /\ flushes' = [flushes EXCEPT ![a].stage = "post"]
  /\ UNCHANGED <<logEvents, last_flush_time, clockMs, logCalls, lastCall,
                 enqueued>>
  /\ UNCHANGED <<turnVars, schedVars, instanceVars, decodeVars, restVars>>

\* Line 96: getGoogleAccountId rejects; the await throws, flushToClearcut
\* rejects, and nothing after line 96 runs.
AccountIdRejects ==
  /\ \E a \in 1..Len(flushes) :
       /\ flushes[a].stage = "lookup"
       /\ flushes' = [flushes EXCEPT ![a].stage = "lookup_error"]
  /\ UNCHANGED <<logEvents, last_flush_time, clockMs, logCalls, lastCall,
                 enqueued>>
  /\ UNCHANGED <<turnVars, schedVars, instanceVars, decodeVars, restVars>>

\* What the then handler (lines 137-143) returns for a response body: the
\* decoded value, or {} when there is none or the decoding throws.
logResponseOf(body) ==
  IF decodeLogResponse(body).t = "object" THEN decodeLogResponse(body)
  ELSE Obj(EmptyArgs)

\* Mutant: the batch is put back whatever way the request ends.
PostRespondsRestoring ==
  /\ \E a \in 1..Len(flushes), body \in ResponseBodies :
       /\ flushes[a].stage = "post"
       /\ logResponseOf(body).t = "object"
       /\ flushes' = [flushes EXCEPT ![a].stage = "responded"]
       /\ logEvents' = restored(logEvents, flushes[a].batch)
  /\ last_flush_time' = clockMs
  /\ UNCHANGED <<clockMs, logCalls, lastCall, enqueued>>
  /\ UNCHANGED <<turnVars, schedVars, instanceVars, decodeVars, restVars>>

\* Lines 120-124 and 136-144: the response has ended; last_flush_time is
\* set and the body decoded.  The value the promise is fulfilled with is
\* dropped by every caller.
PostResponds ==
  /\ \E a \in 1..Len(flushes), body \in ResponseBodies :
       /\ flushes[a].stage = "post"
       /\ logResponseOf(body).t = "object"
       /\ flushes' = [flushes EXCEPT ![a].stage = "responded"]
  /\ last_flush_time' = clockMs
  /\ UNCHANGED <<logEvents, clockMs, logCalls, lastCall, enqueued>>
  /\ UNCHANGED <<turnVars, schedVars, instanceVars, decodeVars, restVars>>

\* Mutant: a failed request counts as a flush too.
PostFailsStamping ==
  /\ \E a \in 1..Len(flushes) :
       /\ flushes[a].stage = "post"
       /\ flushes' = [flushes EXCEPT ![a].stage = "post_error"]
       /\ logEvents' = restored(logEvents, flushes[a].batch)
  /\ last_flush_time' = clockMs
  /\ UNCHANGED <<clockMs, logCalls, lastCall, enqueued>>
  /\ UNCHANGED <<turnVars, schedVars, instanceVars, decodeVars, restVars>>

\* Lines 126-133 and 145-150: the request fails; the batch goes back to
\* the queue and the chain's catch answers {}.
PostFails ==
  /\ \E a \in 1..Len(flushes) :
       /\ flushes[a].stage = "post"
       /\ flushes' = [flushes EXCEPT ![a].stage = "post_error"]
       /\ logEvents' = restored(logEvents, flushes[a].batch)
  /\ UNCHANGED <<last_flush_time, clockMs, logCalls, lastCall, enqueued>>
  /\ UNCHANGED <<turnVars, schedVars, instanceVars, decodeVars, restVars>>

NextLogger ==
  \/ Tick
  \/ logStartSessionEvent
  \/ logNewPromptEvent
  \/ logToolCallEvent
  \/ logApiRequestEvent
  \/ logApiResponseEvent
  \/ logApiErrorEvent
  \/ logEndSessionEvent
  \/ shutdown
  \/ flushIfNeeded
  \/ AccountIdResolves
  \/ AccountIdRejects
  \/ PostResponds
  \/ PostFails

SpecLogger == InitLogger /\ [][NextLogger]_vars

\* What the event loop guarantees: the clock moves on, and a lookup or a
\* request in flight settles.  Nothing makes the program call a log
\* method: no timer of the logger starts a flush.
FairSpecLogger ==
  /\ SpecLogger
  /\ WF_vars(Tick)
  /\ WF_vars(AccountIdResolves \/ AccountIdRejects)
  /\ WF_vars(PostResponds \/ PostFails)


(***************************************************************************)
(* Vocabulary of the properties of the logger.                             *)
(***************************************************************************)
NumberOf(entry) == entry[1].source_extension_json.event_metadata
NameOf(entry) == entry[1].source_extension_json.event_name
Numbers(entries) == {NumberOf(entries[i]) : i \in 1..Len(entries)}
InFlight == {a \in 1..Len(flushes) : flushes[a].stage \in {"lookup", "post"}}
Responded == {a \in 1..Len(flushes) : flushes[a].stage = "responded"}
LatestFlush == flushes[Len(flushes)]

\* The batch of a flush is fixed when the flush starts.
BatchesKept ==
  /\ Len(flushes') >= Len(flushes)
  /\ \A a \in 1..Len(flushes) : flushes'[a].batch = flushes[a].batch

\* The step in which the POST of a flush fails puts its batch in front of
\* what the queue holds.
RestoredAtFront ==
  \A a \in 1..Len(flushes) :
    (flushes[a].stage = "post" /\ flushes'[a].stage = "post_error")
      => logEvents' = flushes[a].batch \o logEvents

(***************************************************************************)
(* C13: if the POST of a flush attempt fails, exactly the events drained   *)
(* for that attempt are put back at the front of the pending queue in      *)
(* their original order, ahead of every event enqueued while the attempt   *)
(* was in flight.                                                          *)
(***************************************************************************)
C13_FailedBatchRestored == [][BatchesKept /\ RestoredAtFront]_vars

\* Two overlapping flushes failed, the later one first: the queue holds
\* the batch of the first in front of the event logged while it was in
\* flight.
C13_Witness ==
  /\ Len(flushes) = 2
  /\ flushes[1].stage = "post_error"
  /\ flushes[2].stage = "post_error"
  /\ flushes[1].batch # <<>>
  /\ flushes[2].batch # <<>>
  /\ logEvents = flushes[1].batch \o flushes[2].batch

\* How often the event with a number is held by the queue and by the
\* batches in flight.
Holders(n) ==
  {<<0, i>> : i \in {j \in 1..Len(logEvents) : NumberOf(logEvents[j]) = n}}
    \cup UNION {{<<a, i>> : i \in {j \in 1..Len(flushes[a].batch) :
                                     NumberOf(flushes[a].batch[j]) = n}}
                  : a \in InFlight}
HeldOnce == \A n \in 1..enqueued : Cardinality(Holders(n)) <= 1

\* The step that starts a flush moves the whole queue, and the event the
\* step enqueues, into the batch and leaves the queue empty.
DrainTakesAll ==
  Len(flushes') > Len(flushes) =>
    /\ Len(flushes') = Len(flushes) + 1
    /\ IsPrefix(logEvents, flushes'[Len(flushes')].batch)
    /\ Len(flushes'[Len(flushes')].batch)
         = Len(logEvents) + (enqueued' - enqueued)
    /\ logEvents' = <<>>

(***************************************************************************)
(* C14: the snapshot of the pending queue and its clearing happen in one   *)
(* step: under any interleaving of enqueues and overlapping flushes no     *)
(* event is dropped by a drain, and no event is in two batches in flight   *)
(* or in the queue and a batch in flight at once.                          *)
(***************************************************************************)
C14_AtomicDrain == []HeldOnce /\ [][DrainTakesAll]_vars

\* A failed batch was drained again together with a new event while no
\* flush was left in flight but that one.
C14_Witness ==
  /\ Len(flushes) = 2
  /\ flushes[1].stage = "post_error"
  /\ flushes[2].stage = "post"
  /\ Len(flushes[2].batch) = 2
  /\ logEvents = <<>>

(***************************************************************************)
(* C15: no telemetry event is lost: each event passed to enqueueLogEvent   *)
(* is in the pending queue, in the batch of a flush still in flight, or in *)
(* the batch of a POST that completed with a response, also when the       *)
(* account id lookup or the POST of its flush fails.                       *)
(***************************************************************************)
C15_NoEventLost ==
  \A n \in 1..enqueued :
    \/ n \in Numbers(logEvents)
    \/ \E a \in InFlight \cup Responded : n \in Numbers(flushes[a].batch)

GatedMethods ==
  {"logNewPromptEvent", "logApiRequestEvent", "logApiResponseEvent"}
ImmediateMethods ==
  {"logStartSessionEvent", "logEndSessionEvent", "logToolCallEvent",
   "logApiErrorEvent"}

(***************************************************************************)
(* C16: flushing is time-gated: a user prompt, API request or API response *)
(* event logged less than 60 seconds after the last flush starts no flush, *)
(* while a session start, session end, tool call or API error event starts *)
(* one whatever the elapsed time.                                          *)
(***************************************************************************)
C16_TimeGated ==
  lastCall # <<>> =>
    /\ (lastCall[1].method \in GatedMethods
          /\ lastCall[1].elapsed < flush_interval_ms)
         => ~lastCall[1].flushed
    /\ lastCall[1].method \in ImmediateMethods => lastCall[1].flushed

(***************************************************************************)
(* C17: no log method leaves a rejected promise unhandled, whatever way    *)
(* the flush fails: a failed account id lookup rejects a promise that has  *)
(* a catch handler, and a transport error or an undecodable response ends  *)
(* in a fulfilled promise.                                                 *)
(***************************************************************************)
C17_NoUnhandledRejection ==
  \A a \in 1..Len(flushes) :
    /\ settlement(flushes[a].stage) = "rejected" => flushes[a].caught
    /\ flushes[a].stage \in {"post_error", "responded"}
         => settlement(flushes[a].stage) = "fulfilled"

\* The flush of shutdown failed at the lookup after an earlier flush had
\* failed at the POST.
C17_Witness ==
  /\ Len(flushes) = 2
  /\ flushes[1].stage = "post_error"
  /\ flushes[2].stage = "lookup_error"
  /\ flushes[2].caught
  /\ lastCall[1].method = "shutdown"

\* What a call of shutdown has done when it returns.
ShutdownFlushes ==
  (logCalls' = logCalls + 1 /\ lastCall'[1].method = "shutdown") =>
    /\ enqueued' = enqueued + 1
    /\ Len(flushes') = Len(flushes) + 1
    /\ flushes'[Len(flushes')].stage = "lookup"
    /\ Len(flushes'[Len(flushes')].batch) = Len(logEvents) + 1
    /\ IsPrefix(logEvents, flushes'[Len(flushes')].batch)
    /\ NameOf(flushes'[Len(flushes')].batch[Len(logEvents) + 1])
         = end_session_event_name
    /\ NumberOf(flushes'[Len(flushes')].batch[Len(logEvents) + 1])
         = enqueued'
    /\ logEvents' = <<>>

(***************************************************************************)
(* C19: shutdown enqueues exactly one end of session event and, before it  *)
(* returns, has started a flush whose batch holds every event that was     *)
(* pending followed by the end of session event, leaving the queue empty.  *)
(***************************************************************************)
C19_ShutdownFlushes == [][ShutdownFlushes]_vars

\* shutdown was called while a failed batch was pending: its flush holds
\* that batch and the end of session event.
C19_Witness ==
  /\ lastCall # <<>>
  /\ lastCall[1].method = "shutdown"
  /\ lastCall[1].elapsed < flush_interval_ms
  /\ Len(flushes) = 2
  /\ flushes[1].stage = "post_error"
  /\ flushes[2].stage = "lookup"
  /\ Len(flushes[2].batch) = 2
  /\ NameOf(flushes[2].batch[2]) = end_session_event_name
  /\ logEvents = <<>>


(***************************************************************************)
(* The value of a well-formed varint.                                      *)
(***************************************************************************)
\* The marker, then bytes with the continuation bit, then one without.
WellFormed ==
  /\ Len(buf) >= 2
  /\ buf[1] = 8
  /\ \A i \in 2..(Len(buf) - 1) : HasContinuationBit(buf[i])
  /\ ~HasContinuationBit(buf[Len(buf)])

\* The sum over i of (b_i & 0x7f) * 128^(i-1), as groups of 7 bits.
VarintSum ==
  GroupsOf(BitsOf([i \in 1..(Len(buf) - 1) |-> buf[i + 1] % 128]))

\* The integer a short sequence of groups stands for.
RECURSIVE ValueOf(_)
ValueOf(groups) ==
  IF groups = <<>> THEN 0 ELSE Head(groups) + 128 * ValueOf(Tail(groups))

\* The claim as stated: the sum is returned for every well-formed buffer.
C21_Original ==
  (decoded # <<>> /\ WellFormed) =>
    /\ decoded[1].t = "object"
    /\ decoded[1].nextRequestWaitMs = VarintSum

(***************************************************************************)
(* C21: for every buffer made of the byte 8 and a terminated varint whose  *)
(* value is below 2^53, decodeLogResponse returns that value, the sum of   *)
(* (b_i & 0x7f) * 128^(i-1); [8, 0x96, 0x01] gives 150.  A larger value is *)
(* returned as the double nearest to it.                                   *)
(***************************************************************************)
C21_VarintValue ==
  (decoded # <<>> /\ WellFormed) =>
    /\ decoded[1].t = "object"
    /\ (\A p \in BitsOf(VarintSum) : p < 53)
         => decoded[1].nextRequestWaitMs = VarintSum
    /\ decoded[1].nextRequestWaitMs = Number(VarintSum)
    /\ buf = <<8, 150, 1>> => ValueOf(decoded[1].nextRequestWaitMs) = 150

\* A varint of seven bytes, 49 bits, decoded to its exact value.
C21_Witness ==
  /\ decoded # <<>>
  /\ WellFormed
  /\ Len(buf) = 8
  /\ buf[8] = 127
  /\ decoded[1].nextRequestWaitMs = VarintSum
  /\ Len(VarintSum) = 7


(***************************************************************************)
(* The telemetry event classes (turn.ts 280-477).  An event is a function  *)
(* from its property names to JavaScript values; a property the            *)
(* constructor never assigned is absent and reads as undefined.            *)
(***************************************************************************)
MaxBuilt == 1
MaxEventTime == 2

Bool(b) == [t |-> "boolean", b |-> b]

\* A property read: e[k].
Get(e, k) == IF k \in DOMAIN e THEN e[k] ELSE Undefined

\* Array.prototype.join(',') on strings.
RECURSIVE JoinComma(_)
JoinComma(xs) ==
  IF xs = <<>> THEN ""
  ELSE IF Len(xs) = 1 THEN xs[1]
  ELSE xs[1] \o "," \o JoinComma(Tail(xs))

\* Date.prototype.toISOString for the instants of the first seconds of the
\* epoch, which are the instants the clock of the model takes.
toISOString(ms) ==
  "1970-01-01T00:00:0" \o ToString(ms \div 1000) \o "."
    \o ToString((ms % 1000) \div 100) \o ToString((ms % 100) \div 10)
    \o ToString(ms % 10) \o "Z"

\* The instants of the clock.
EventTimes == {1000 * k : k \in 0..MaxEventTime}

\* Lines 280-284 and the members of ToolConfirmationOutcome.
ToolCallDecision == [ACCEPT |-> "accept", REJECT |-> "reject", MODIFY |-> "modify"]
ToolConfirmationOutcome ==
  {"ProceedOnce", "ProceedAlways", "ProceedAlwaysServer", "ProceedAlwaysTool",
   "ModifyWithEditor", "Cancel"}

\* The outcomes a caller can pass: the members, a string that is no member,
\* and undefined.
ConfirmationOutcomes ==
  {Str(o) : o \in ToolConfirmationOutcome} \cup {Str("Unrecognised"), Undefined}

\* Mutant: an edited call is reported as a rejection.
getDecisionFromOutcomeModifyRejects(confirmation) ==
  IF confirmation.t = "string"
       /\ confirmation.s \in {"ProceedOnce", "ProceedAlways", "ProceedAlwaysServer",
                         "ProceedAlwaysTool"}
  THEN ToolCallDecision.ACCEPT
  ELSE ToolCallDecision.REJECT

\* Lines 286-301.
getDecisionFromOutcome(confirmation) ==
  IF confirmation.t = "string"
       /\ confirmation.s \in {"ProceedOnce", "ProceedAlways", "ProceedAlwaysServer",
                         "ProceedAlwaysTool"}
  THEN ToolCallDecision.ACCEPT
  ELSE IF confirmation.t = "string" /\ confirmation.s = "ModifyWithEditor"
  THEN ToolCallDecision.MODIFY
  ELSE ToolCallDecision.REJECT

\* contentGenerator.ts 38-44.
AuthType ==
  [LOGIN_WITH_GOOGLE |-> "oauth-personal", USE_AGENT |-> "agent-api-key",
   USE_VERTEX_AI |-> "vertex-ai", USE_OPENAI |-> "openai-api-key",
   USE_CUSTOM_API |-> "custom-api-key"]

\* The configs the constructors read: what each getter returns.
EventConfig(authType, mcpServers, sandbox, coreTools, sessionId) ==
  [contentGeneratorConfig |->
     IF authType = Undefined THEN Undefined ELSE Obj([authType |-> authType]),
   mcpServers |-> mcpServers, sandbox |-> sandbox, coreTools |-> coreTools,
   model |-> "m", embeddingModel |-> "e", approvalMode |-> "default",
   debugMode |-> FALSE, telemetryEnabled |-> TRUE,
   telemetryLogPromptsEnabled |-> FALSE,
   fileFilteringRespectGitIgnore |-> TRUE, sessionId |-> sessionId]
EventConfigs ==
  {EventConfig(Undefined, Undefined, Undefined, Undefined, "s0"),
   EventConfig(Str(AuthType.USE_AGENT), Arr(<<"x", "y">>), Str(""),
               Arr(<<"a", "b">>), "s1"),
   EventConfig(Str(AuthType.USE_VERTEX_AI), Arr(<<>>), Obj("image"),
               Arr(<<"a">>), "s2"),
   EventConfig(Str(AuthType.USE_OPENAI), Undefined, Undefined, Arr(<<>>),
               "s3")}

\* Lines 319-346: the constructor assigns no 'event.timestamp'.
StartSessionEvent(config, at) ==
  LET generatorConfig == config.contentGeneratorConfig
      hasAuth == Truthy(generatorConfig) /\ Truthy(generatorConfig.o.authType)
      useAgent ==
        hasAuth /\ generatorConfig.o.authType = Str(AuthType.USE_AGENT)
      useVertex ==
        hasAuth /\ generatorConfig.o.authType = Str(AuthType.USE_VERTEX_AI)
  IN ("event.name" :> Str("cli_config"))
       @@ ("model" :> Str(config.model))
       @@ ("embedding_model" :> Str(config.embeddingModel))
       @@ ("sandbox_enabled" :>
             Bool(config.sandbox.t = "string" \/ Truthy(config.sandbox)))
       @@ ("core_tools_enabled" :>
             Str(IF config.coreTools = Undefined THEN ""
                 ELSE JoinComma(config.coreTools.a)))
       @@ ("approval_mode" :> Str(config.approvalMode))
       @@ ("api_key_enabled" :> Bool(useAgent \/ useVertex))
       @@ ("vertex_ai_enabled" :> Bool(useVertex))
       @@ ("debug_enabled" :> Bool(config.debugMode))
       @@ ("mcp_servers" :>
             Str(IF Truthy(config.mcpServers)
                 THEN JoinComma(config.mcpServers.a) ELSE ""))
       @@ ("telemetry_enabled" :> Bool(config.telemetryEnabled))
       @@ ("telemetry_log_user_prompts_enabled" :>
             Bool(config.telemetryLogPromptsEnabled))
       @@ ("file_filtering_respect_git_ignore" :>
             Bool(config.fileFilteringRespectGitIgnore))

\* Lines 354-358; config is <<>> when the argument is left out.
EndSessionEvent(config, at) ==
  ("event.name" :> Str("end_session"))
    @@ ("event.timestamp" :> Str(toISOString(at)))
    @@ ("session_id" :>
          IF config = <<>> THEN Undefined ELSE Str(config[1].sessionId))

\* Lines 367-372.
UserPromptEvent(prompt_length, prompt, at) ==
  ("event.name" :> Str("user_prompt"))
    @@ ("event.timestamp" :> Str(toISOString(at)))
    @@ ("prompt_length" :> Num(prompt_length))
    @@ ("prompt" :> prompt)

\* The completed calls handed to ToolCallEvent.
CompletedToolCall(status, durationMs, confirmation, error) ==
  [request |-> [name |-> "read_file", args |-> Obj("args")],
   status |-> status, durationMs |-> durationMs, outcome |-> confirmation,
   response |-> [error |-> error]]
CompletedToolCalls ==
  {CompletedToolCall(st[1], d, o, st[2]) :
     st \in {<<"success", Undefined>>,
             <<"error", Obj([message |-> "boom", name |-> "Error"])>>,
             <<"cancelled", Undefined>>},
     d \in {Undefined, Num(7)},
     o \in {Undefined, Str("ProceedOnce"), Str("ModifyWithEditor"),
            Str("Cancel")}}

\* Mutant: a call counts as successful unless it ended in an error.
ToolCallEventSuccessUnlessError(call, at) ==
  ("event.name" :> Str("tool_call"))
    @@ ("event.timestamp" :> Str(toISOString(at)))
    @@ ("function_name" :> Str(call.request.name))
    @@ ("function_args" :> call.request.args)
    @@ ("duration_ms" :>
          IF call.durationMs = Undefined THEN Num(0) ELSE call.durationMs)
    @@ ("success" :> Bool(call.status # "error"))
    @@ ("decision" :>
          IF Truthy(call.outcome)
          THEN Str(getDecisionFromOutcome(call.outcome)) ELSE Undefined)
    @@ ("error" :>
          IF call.response.error = Undefined THEN Undefined
          ELSE Str(call.response.error.o.message))
    @@ ("error_type" :>
          IF call.response.error = Undefined THEN Undefined
          ELSE Str(call.response.error.o.name))

\* Lines 386-398.
ToolCallEvent(call, at) ==
  ("event.name" :> Str("tool_call"))
    @@ ("event.timestamp" :> Str(toISOString(at)))
    @@ ("function_name" :> Str(call.request.name))
    @@ ("function_args" :> call.request.args)
    @@ ("duration_ms" :>
          IF call.durationMs = Undefined THEN Num(0) ELSE call.durationMs)
    @@ ("success" :> Bool(call.status = "success"))
    @@ ("decision" :>
          IF Truthy(call.outcome)
          THEN Str(getDecisionFromOutcome(call.outcome)) ELSE Undefined)
    @@ ("error" :>
          IF call.response.error = Undefined THEN Undefined
          ELSE Str(call.response.error.o.message))
    @@ ("error_type" :>
          IF call.response.error = Undefined THEN Undefined
          ELSE Str(call.response.error.o.name))

\* Lines 407-411.
ApiRequestEvent(model, request_text, at) ==
  ("event.name" :> Str("api_request"))
    @@ ("event.timestamp" :> Str(toISOString(at)))
    @@ ("model" :> Str(model))
    @@ ("request_text" :> request_text)

\* Lines 423-437.
ApiErrorEvent(model, error, duration_ms, error_type, status_code, at) ==
  ("event.name" :> Str("api_error"))
    @@ ("event.timestamp" :> Str(toISOString(at)))
    @@ ("model" :> Str(model))
    @@ ("error" :> Str(error))
    @@ ("error_type" :> error_type)
    @@ ("status_code" :> status_code)
    @@ ("duration_ms" :> Num(duration_ms))

\* usage_data?.<count> ?? 0.
CountOf(usage_data, count) ==
  IF usage_data = Undefined \/ Get(usage_data.o, count) = Undefined
  THEN Num(0)
  ELSE Get(usage_data.o, count)

\* Lines 455-476.
ApiResponseEvent(model, duration_ms, usage_data, response_text, error, at) ==
  ("event.name" :> Str("api_response"))
    @@ ("event.timestamp" :> Str(toISOString(at)))
    @@ ("model" :> Str(model))
    @@ ("duration_ms" :> Num(duration_ms))
    @@ ("status_code" :> Num(200))
    @@ ("input_token_count" :> CountOf(usage_data, "promptTokenCount"))
    @@ ("output_token_count" :> CountOf(usage_data, "candidatesTokenCount"))
    @@ ("cached_content_token_count" :>
          CountOf(usage_data, "cachedContentTokenCount"))
    @@ ("thoughts_token_count" :> CountOf(usage_data, "thoughtsTokenCount"))
    @@ ("tool_token_count" :> CountOf(usage_data, "toolUsePromptTokenCount"))
    @@ ("total_token_count" :> CountOf(usage_data, "totalTokenCount"))
    @@ ("response_text" :> response_text)
    @@ ("error" :> error)

\* The arguments the callers pass to the other constructors.
UserPrompts == {<<11, Str("test-prompt")>>, <<0, Undefined>>}
ApiRequests == {<<"test-model", Str("This is a test request")>>,
                <<"test-model", Undefined>>}
ApiErrors ==
  {<<"test-model", "boom", 100, Undefined, Undefined>>,
   <<"test-model", "quota", 100, Str("ApiError"), Num(429)>>,
   <<"test-model", "reset", 100, Str("Error"), Str("ECONNRESET")>>}
UsageData ==
  {Undefined,
   Obj(("promptTokenCount" :> Num(17)) @@ ("candidatesTokenCount" :> Num(50))
         @@ ("cachedContentTokenCount" :> Num(10))
         @@ ("thoughtsTokenCount" :> Num(5))
         @@ ("toolUsePromptTokenCount" :> Num(2))
         @@ ("totalTokenCount" :> Num(84))),
   Obj(("promptTokenCount" :> Num(17)) @@ ("totalTokenCount" :> Num(17)))}
ApiResponses ==
  {<<"test-model", 100, u, r[1], r[2]>> :
     u \in UsageData,
     r \in {<<Str("test-response"), Undefined>>, <<Undefined, Str("boom")>>}}

InitEvents ==
  /\ TurnIdle
  /\ SchedulerIdle
  /\ LoggerIdle
  /\ InstanceIdle
  /\ DecoderIdle
  /\ RestIdleBesides_EventsIdle
  /\ dateNow \in EventTimes
  /\ built = <<>>
  /\ decided = <<>>

\* An object of one class is constructed from the arguments of new, at the
\* instant the clock shows.
constructed(class, event, args) ==
  built' = Append(built, [class |-> class, event |-> event, at |-> dateNow,
                          args |-> args])

\* Time passes between two constructions.
ClockAdvances ==
  /\ dateNow < 1000 * MaxEventTime
  /\ dateNow' = dateNow + 1000
  /\ UNCHANGED <<built, decided>>
  /\ UNCHANGED besides_eventVars

NewStartSessionEvent ==
  /\ Len(built) < MaxBuilt
  /\ \E config \in EventConfigs :
       constructed("StartSessionEvent", StartSessionEvent(config, dateNow),
                   <<config>>)
  /\ UNCHANGED <<dateNow, decided>>
  /\ UNCHANGED besides_eventVars

NewEndSessionEvent ==
  /\ Len(built) < MaxBuilt
  /\ \E config \in {<<>>} \cup {<<c>> : c \in EventConfigs} :
       constructed("EndSessionEvent", EndSessionEvent(config, dateNow),
                   config)
  /\ UNCHANGED <<dateNow, decided>>
  /\ UNCHANGED besides_eventVars

NewUserPromptEvent ==
  /\ Len(built) < MaxBuilt
  /\ \E p \in UserPrompts :
       constructed("UserPromptEvent", UserPromptEvent(p[1], p[2], dateNow), p)
  /\ UNCHANGED <<dateNow, decided>>
  /\ UNCHANGED besides_eventVars

\* The constructor calls getDecisionFromOutcome when the call has an outcome.
NewToolCallEvent ==
  /\ Len(built) < MaxBuilt
  /\ \E call \in CompletedToolCalls :
       /\ constructed("ToolCallEvent", ToolCallEvent(call, dateNow), <<call>>)
       /\ decided' =
            IF Truthy(call.outcome)
            THEN <<[outcome |-> call.outcome,
                    decision |-> getDecisionFromOutcome(call.outcome)]>>
            ELSE decided
  /\ UNCHANGED dateNow
  /\ UNCHANGED besides_eventVars

NewApiRequestEvent ==
  /\ Len(built) < MaxBuilt
  /\ \E r \in ApiRequests :
       constructed("ApiRequestEvent", ApiRequestEvent(r[1], r[2], dateNow), r)
  /\ UNCHANGED <<dateNow, decided>>
  /\ UNCHANGED besides_eventVars

NewApiErrorEvent ==
  /\ Len(built) < MaxBuilt
  /\ \E r \in ApiErrors :
       constructed("ApiErrorEvent",
                   ApiErrorEvent(r[1], r[2], r[3], r[4], r[5], dateNow), r)
  /\ UNCHANGED <<dateNow, decided>>
  /\ UNCHANGED besides_eventVars

NewApiResponseEvent ==
  /\ Len(built) < MaxBuilt
  /\ \E r \in ApiResponses :
       constructed("ApiResponseEvent",
                   ApiResponseEvent(r[1], r[2], r[3], r[4], r[5], dateNow), r)
  /\ UNCHANGED <<dateNow, decided>>
  /\ UNCHANGED besides_eventVars

\* A call of the exported function.
CallGetDecisionFromOutcome ==
  /\ \E o \in ConfirmationOutcomes :
       decided' = <<[outcome |-> o, decision |-> getDecisionFromOutcome(o)]>>
  /\ UNCHANGED <<dateNow, built>>
  /\ UNCHANGED besides_eventVars

NextEvents ==
  \/ ClockAdvances
  \/ NewStartSessionEvent
  \/ NewEndSessionEvent
  \/ NewUserPromptEvent
  \/ NewToolCallEvent
  \/ NewApiRequestEvent
  \/ NewApiErrorEvent
  \/ NewApiResponseEvent
  \/ CallGetDecisionFromOutcome

SpecEvents == InitEvents /\ [][NextEvents]_vars

\* The 'event.name' of each class.
EventNameOf(class) ==
  CASE class = "StartSessionEvent" -> "cli_config"
    [] class = "EndSessionEvent" -> "end_session"
    [] class = "UserPromptEvent" -> "user_prompt"
    [] class = "ToolCallEvent" -> "tool_call"
    [] class = "ApiRequestEvent" -> "api_request"
    [] class = "ApiErrorEvent" -> "api_error"
    [] class = "ApiResponseEvent" -> "api_response"

(***************************************************************************)
(* C22: every telemetry event object of every kind carries its event name  *)
(* and an 'event.timestamp' that its constructor set to the construction   *)
(* time, as an ISO-8601 string.                                            *)
(***************************************************************************)
C22_StampedAtConstruction ==
  \A i \in 1..Len(built) :
    /\ Get(built[i].event, "event.name") = Str(EventNameOf(built[i].class))
    /\ Get(built[i].event, "event.timestamp") = Str(toISOString(built[i].at))

\* The decisions of the three kinds.
Accepted ==
  {Str("ProceedOnce"), Str("ProceedAlways"), Str("ProceedAlwaysServer"),
   Str("ProceedAlwaysTool")}
DecisionFor(o) ==
  IF o \in Accepted THEN "accept"
  ELSE IF o = Str("ModifyWithEditor") THEN "modify"
  ELSE "reject"

(***************************************************************************)
(* C23: getDecisionFromOutcome returns a decision for every outcome, and   *)
(* the same one each time: ACCEPT for ProceedOnce, ProceedAlways,          *)
(* ProceedAlwaysServer and ProceedAlwaysTool, MODIFY and never REJECT for  *)
(* ModifyWithEditor, REJECT for Cancel and for any unrecognised outcome.   *)
(***************************************************************************)
C23_DecisionFromOutcome ==
  /\ decided # <<>> =>
       /\ decided[1].decision \in {"accept", "modify", "reject"}
       /\ decided[1].decision = DecisionFor(decided[1].outcome)
       /\ decided[1].outcome = Str("ModifyWithEditor")
            => decided[1].decision # "reject"
  /\ \A i \in 1..Len(built) :
       (built[i].class = "ToolCallEvent" /\ decided # <<>>
          /\ Get(built[i].event, "decision") # Undefined)
         => \E o \in ConfirmationOutcomes :
              Get(built[i].event, "decision") = Str(DecisionFor(o))

\* An edited call was reported, and an unrecognised outcome was decided.
C23_Witness ==
  /\ decided = <<[outcome |-> Str("Unrecognised"), decision |-> "reject"]>>
  /\ built # <<>>
  /\ built[1].class = "ToolCallEvent"
  /\ Get(built[1].event, "decision") = Str("modify")


(***************************************************************************)
(* The model availability check (modelCheck.ts, part_000 721-894) with the *)
(* defaults of config/models.ts (agent.test.tsx 154-201).  A call runs to  *)
(* its first await, where the probe is in flight and the timer of 2000 ms  *)
(* is armed; the probe answers, throws, or is aborted by the timer.        *)
(***************************************************************************)
MaxWaited == 2

DEFAULT_AGENT_MODEL == "agent-2.5-pro"
DEFAULT_AGENT_FLASH_MODEL == "agent-2.5-flash"
DEFAULT_OPENAI_MODEL == "gpt-4o"
DEFAULT_OPENAI_FAST_MODEL == "gpt-4o-mini"
DEFAULT_CUSTOM_MODEL == "gpt-4o"
DEFAULT_CUSTOM_FAST_MODEL == "gpt-4o-mini"

\* agent.test.tsx 172-184.
getDefaultModelForAuthType(authType) ==
  CASE authType = "openai-api-key" -> DEFAULT_OPENAI_MODEL
    [] authType = "custom-api-key" -> DEFAULT_CUSTOM_MODEL
    [] OTHER -> DEFAULT_AGENT_MODEL

\* agent.test.tsx 189-201.
getFastModelForAuthType(authType) ==
  CASE authType = "openai-api-key" -> DEFAULT_OPENAI_FAST_MODEL
    [] authType = "custom-api-key" -> DEFAULT_CUSTOM_FAST_MODEL
    [] OTHER -> DEFAULT_AGENT_FLASH_MODEL

\* The arguments of a call: the auth types and one that is none of them, the
\* default and fast models and one that is neither, base URLs absent, empty,
\* with and without the /v1 suffix.
CheckAuthTypes ==
  {AuthType.LOGIN_WITH_GOOGLE, AuthType.USE_AGENT, AuthType.USE_VERTEX_AI,
   AuthType.USE_OPENAI, AuthType.USE_CUSTOM_API, "unknown-auth"}
CheckModels ==
  {DEFAULT_AGENT_MODEL, DEFAULT_AGENT_FLASH_MODEL, DEFAULT_OPENAI_MODEL,
   "custom-model"}
BaseUrls ==
  {Undefined, Str(""), Str("http://h"), Str("http://h/v1"), Str("/v")}
CheckArgs ==
  [apiKey : {"k"}, currentConfiguredModel : CheckModels,
   authType : CheckAuthTypes, baseUrl : BaseUrls]

\* The statusCode codes a probe answers with.
ProbeStatuses == {200, 400, 429, 500}

\* String.prototype.endsWith.
endsWith(str, suffix) ==
  /\ Len(str) >= Len(suffix)
  /\ SubSeq(str, Len(str) - Len(suffix) + 1, Len(str)) = suffix

\* Lines 760, 805 and 857-858: the endpoint of the probe.
geminiEndpoint(modelToTest, apiKey) ==
  "https://generativelanguage.googleapis.com/v1beta/models/" \o modelToTest
    \o ":generateContent?key=" \o apiKey
openAIEndpoint == "https://api.openai.com/v1/chat/completions"
customEndpoint(baseUrl) ==
  (IF endsWith(baseUrl, "/v1") THEN baseUrl ELSE baseUrl \o "/v1")
    \o "/chat/completions"

\* Lines 772, 814 and 868: setTimeout(() => controller.abort(), 2000).
abortAfterMs == 2000

\* Mutant: every configured model is checked.
bypassesNever(currentConfiguredModel, defaultModel) == FALSE

\* Line 731: currentConfiguredModel !== defaultModel.
bypasses(currentConfiguredModel, defaultModel) ==
  currentConfiguredModel # defaultModel

\* Mutant: every error statusCode is taken as a rate limit.
rateLimitedOnError(statusCode) == statusCode >= 400

\* Lines 784, 832 and 881: response.statusCode === 429.
rateLimited(statusCode) == statusCode = 429

\* Mutant: there is no catch clause.
catchesNothing(error) == FALSE

\* Lines 791, 836 and 890: catch (_error) catches whatever was thrown.
catches(error) == TRUE

\* The probe a check function sends before its await, <<>> when it returns
\* without one.
probeOf(args) ==
  LET m == args.currentConfiguredModel
  IN CASE args.authType \in {AuthType.USE_AGENT, AuthType.USE_VERTEX_AI} ->
            <<[endpoint |-> geminiEndpoint(m, args.apiKey), model |-> m,
               authorization |-> Undefined]>>
       [] args.authType = AuthType.USE_OPENAI ->
            <<[endpoint |-> openAIEndpoint, model |-> m,
               authorization |-> Str("Bearer " \o args.apiKey)]>>
       [] args.authType = AuthType.USE_CUSTOM_API ->
            IF ~Truthy(args.baseUrl) THEN <<>>
            ELSE <<[endpoint |-> customEndpoint(args.baseUrl.s), model |-> m,
                    authorization |-> Str("Bearer " \o args.apiKey)]>>
       [] OTHER -> <<>>

\* A settled promise.
Resolved(value) == [settled |-> "resolved", value |-> value]
Rejected(reason) == [settled |-> "rejected", reason |-> reason]

InitModelCheck ==
  /\ TurnIdle
  /\ SchedulerIdle
  /\ LoggerIdle
  /\ InstanceIdle
  /\ DecoderIdle
  /\ RestIdleBesides_ModelCheckIdle
  /\ checkArgs \in {<<a>> : a \in CheckArgs}
  /\ checkPc = "start"
  /\ sent = <<>>
  /\ timer = "none"
  /\ waited = 0
  /\ effective = <<>>
  /\ answered = <<>>

\* Lines 721-750 and the check function up to its await.
getEffectiveModel ==
  /\ checkPc = "start"
  /\ LET args == checkArgs[1]
         defaultModel == getDefaultModelForAuthType(args.authType)
     IN IF bypasses(args.currentConfiguredModel, defaultModel)
             \/ probeOf(args) = <<>>
        THEN /\ effective' = <<Resolved(args.currentConfiguredModel)>>
             /\ checkPc' = "done"
             /\ UNCHANGED <<sent, timer>>
        ELSE /\ sent' = sent \o probeOf(args)
             /\ timer' = "armed"
             /\ checkPc' = "awaiting"
             /\ UNCHANGED effective
  /\ UNCHANGED <<checkArgs, waited, answered>>
  /\ UNCHANGED besides_modelCheckVars

\* Time passes while the probe is in flight.
ProbeWaits ==
  /\ checkPc = "awaiting"
  /\ waited < 1000 * MaxWaited
  /\ waited' = waited + 1000
  /\ UNCHANGED <<checkArgs, checkPc, sent, timer, effective, answered>>
  /\ UNCHANGED besides_modelCheckVars

\* fetch resolves: clearTimeout, then the statusCode decides.
ProbeResponds ==
  /\ checkPc = "awaiting"
  /\ timer = "armed"
  /\ \E statusCode \in ProbeStatuses :
       /\ answered' = <<[kind |-> "response", statusCode |-> statusCode]>>
       /\ effective' =
            <<Resolved(IF rateLimited(statusCode)
                       THEN getFastModelForAuthType(checkArgs[1].authType)
                       ELSE checkArgs[1].currentConfiguredModel)>>
  /\ timer' = "cleared"
  /\ checkPc' = "done"
  /\ UNCHANGED <<checkArgs, sent, waited>>
  /\ UNCHANGED besides_modelCheckVars

\* What follows a rejection of fetch with the error thrown.
afterThrow(error) ==
  IF catches(error)
  THEN effective' = <<Resolved(checkArgs[1].currentConfiguredModel)>>
  ELSE effective' = <<Rejected(error)>>

\* fetch rejects with a network error.
ProbeThrows ==
  /\ checkPc = "awaiting"
  /\ timer = "armed"
  /\ afterThrow("TypeError")
  /\ answered' = <<[kind |-> "TypeError", statusCode |-> 0]>>
  /\ timer' = "cleared"
  /\ checkPc' = "done"
  /\ UNCHANGED <<checkArgs, sent, waited>>
  /\ UNCHANGED besides_modelCheckVars

\* The timer fires after 2000 ms: the controller aborts and fetch rejects.
ProbeAborted ==
  /\ checkPc = "awaiting"
  /\ timer = "armed"
  /\ waited >= abortAfterMs
  /\ afterThrow("AbortError")
  /\ answered' = <<[kind |-> "AbortError", statusCode |-> 0]>>
  /\ timer' = "fired"
  /\ checkPc' = "done"
  /\ UNCHANGED <<checkArgs, sent, waited>>
  /\ UNCHANGED besides_modelCheckVars

NextModelCheck ==
  \/ getEffectiveModel
  \/ ProbeWaits
  \/ ProbeResponds
  \/ ProbeThrows
  \/ ProbeAborted

SpecModelCheck == InitModelCheck /\ [][NextModelCheck]_vars
FairSpecModelCheck ==
  SpecModelCheck /\ WF_vars(NextModelCheck)

\* The call has run, with these arguments, defaults and result.
Checked == checkPc # "start"
ConfiguredModel == checkArgs[1].currentConfiguredModel
DefaultModel == getDefaultModelForAuthType(checkArgs[1].authType)
FastModel == getFastModelForAuthType(checkArgs[1].authType)
NoBaseUrl == checkArgs[1].baseUrl \in {Undefined, Str("")}

(***************************************************************************)
(* C24: getEffectiveModel returns the configured model unchanged and sends *)
(* no probe request whenever the configured model differs from the default *)
(* model of the auth type, and also for the auth type LOGIN_WITH_GOOGLE    *)
(* and for the custom-API auth type without a base URL.                    *)
(***************************************************************************)
C24_NoProbeUnlessDefault ==
  (/\ Checked
   /\ \/ ConfiguredModel # DefaultModel
      \/ checkArgs[1].authType = "oauth-personal"
      \/ checkArgs[1].authType = "custom-api-key" /\ NoBaseUrl)
    => /\ sent = <<>>
       /\ effective = <<Resolved(ConfiguredModel)>>

\* The custom API with its default model and no base URL; and elsewhere a
\* configured model that is not the default.
C24_Witness ==
  /\ Checked
  /\ checkArgs[1].authType = "custom-api-key"
  /\ ConfiguredModel = "gpt-4o"
  /\ checkArgs[1].baseUrl = Undefined
  /\ sent = <<>>
  /\ effective = <<Resolved("gpt-4o")>>

(***************************************************************************)
(* C25: when the configured model equals the default of the auth type and  *)
(* a probe was sent, getEffectiveModel returns the fast model of the auth  *)
(* type if and only if the probe answered with status 429; after any other *)
(* status, a network error or the abort at the 2-second timeout it returns *)
(* the configured model.                                                   *)
(***************************************************************************)
C25_FastModelIffRateLimited ==
  (ConfiguredModel = DefaultModel /\ sent # <<>> /\ effective # <<>>) =>
    /\ answered # <<>>
    /\ effective[1] = Resolved(FastModel)
         <=> answered[1] = [kind |-> "response", statusCode |-> 429]
    /\ answered[1] # [kind |-> "response", statusCode |-> 429]
         => effective[1] = Resolved(ConfiguredModel)
    /\ answered[1].kind = "AbortError" => waited >= 2000

\* A custom API answered 429 at the normalised endpoint.
C25_Witness ==
  /\ checkArgs[1].authType = "custom-api-key"
  /\ checkArgs[1].baseUrl = Str("http://h")
  /\ Len(sent) = 1
  /\ sent[1].endpoint = "http://h/v1/chat/completions"
  /\ answered = <<[kind |-> "response", statusCode |-> 429]>>
  /\ effective = <<Resolved("gpt-4o-mini")>>

(***************************************************************************)
(* C26: getEffectiveModel never rejects: for every auth type, configured   *)
(* model and probe outcome, a thrown fetch and the timeout included, its   *)
(* promise settles, it settles as resolved, and the value is the           *)
(* configured model or the fast model of the auth type.                    *)
(***************************************************************************)
C26_AlwaysResolves ==
  /\ [](effective # <<>> =>
          /\ effective[1].settled = "resolved"
          /\ effective[1].value \in {ConfiguredModel, FastModel})
  /\ <>(effective # <<>>)

\* The probe was aborted by the timer and the configured model returned.
C26_Witness ==
  /\ timer = "fired"
  /\ answered = <<[kind |-> "AbortError", statusCode |-> 0]>>
  /\ effective = <<Resolved(ConfiguredModel)>>


(***************************************************************************)
(* OpenAIContentGenerator (openaiContentGenerator.ts).  The generator of   *)
(* generateContentStream takes the chunks of the OpenAI stream one by one; *)
(* one step is one segment of its for-await loop between two suspension    *)
(* points: the await of the next chunk and the two yields.  The consumer   *)
(* resumes the generator at a yield or stops there.  toolCallIdMap is a    *)
(* set of <<name, id>> pairs, one per name; the stream only writes it, so  *)
(* what the generator yields does not depend on the calls that share it.   *)
(***************************************************************************)
MaxStreamLen == 3

\* Map.prototype.set and Map.prototype.get, <<>> for a missing key.
mapSet(map, key, value) == {p \in map : p[1] # key} \cup {<<key, value>>}
mapGet(map, key) ==
  IF \E p \in map : p[1] = key
  THEN <<(CHOOSE p \in map : p[1] = key)[2]>>
  ELSE <<>>

\* v || fallback on optional strings, as a string.
OrString(v, fallback) == IF Truthy(v) THEN v.s ELSE fallback

\* One entry of delta.tool_calls; function is present in every fragment.
ToolCallDelta(index, id, name, arguments) ==
  [index |-> index, id |-> id,
   function |-> [name |-> name, arguments |-> arguments]]

\* A chunk with one choice, and the chunk without choices.
StreamChunk(content, tool_calls, finish_reason) ==
  [choices |-> <<[delta |-> [content |-> content, tool_calls |-> tool_calls],
                  finish_reason |-> finish_reason]>>,
   usage |-> Undefined]

\* The usage of a response or of a chunk, and a chunk that carries it.
Usage(prompt_tokens, completion_tokens, total_tokens) ==
  [t |-> "object", prompt_tokens |-> prompt_tokens,
   completion_tokens |-> completion_tokens, total_tokens |-> total_tokens]
WithUsage(chunk, usage) == [chunk EXCEPT !.usage = usage]
NoChoiceChunk == [choices |-> <<>>, usage |-> Undefined]

\* The chunks of the streams: the fragments of a call at index 0, the first
\* of them with its id and name, a whole call at index 1, text, the two
\* finish reasons of a turn with tool calls, the second of them with the
\* usage of the request, text together with a finish reason, with and
\* without a tool call, and a chunk without choices.
FragmentChunks ==
  {StreamChunk(Undefined, Arr(<<d>>), Undefined) :
     d \in {ToolCallDelta(Num(0), Str("call_a"), Str("f"), Str("")),
            ToolCallDelta(Undefined, Undefined, Undefined, Str("{\"a\":")),
            ToolCallDelta(Num(0), Undefined, Undefined, Str("1}")),
            ToolCallDelta(Num(1), Str("call_b"), Str("g"), Str("{}"))}}
StreamChunkPool ==
  FragmentChunks
    \cup {StreamChunk(Str("hi"), Undefined, Undefined),
          StreamChunk(Str("hi"), Undefined, Str("tool_calls")),
          StreamChunk(Str("hi"),
                      Arr(<<ToolCallDelta(Num(0), Str("call_a"), Str("f"),
                                          Str("{}"))>>),
                      Str("tool_calls")),
          StreamChunk(Undefined, Undefined, Str("tool_calls")),
          WithUsage(StreamChunk(Undefined, Undefined, Str("length")),
                    Usage(Num(1), Num(2), Num(3))),
          NoChoiceChunk}
OpenAIStreams == SeqsUpTo(StreamChunkPool, MaxStreamLen)

\* JSON.parse on the argument strings the fragments can make: {} and
\* {"a":1} are the documents among them, an object being the set of its
\* <<key, value>> pairs; <<>> stands for the SyntaxError thrown.
JSONparse(text) ==
  CASE text = "{}" -> <<Obj({})>>
    [] text = "{\"a\":1}" -> <<Obj({<<"a", 1>>})>>
    [] OTHER -> <<>>

\* Lines 421-434.
mapFinishReason(reason) ==
  CASE reason = Str("stop") -> "STOP"
    [] reason = Str("length") -> "MAX_TOKENS"
    [] reason = Str("tool_calls") -> "STOP"
    [] reason = Str("content_filter") -> "SAFETY"
    [] OTHER -> "OTHER"

\* Mutant: a later fragment is put in front of the arguments.
appendArgumentsInFront(arguments, fragment) == fragment \o arguments

\* Line 100: arguments += fragment.
appendArguments(arguments, fragment) == arguments \o fragment

\* Lines 84-106 for one entry of delta.tool_calls.  The array is a sequence
\* of <<>> (a hole) and <<call>>, the element of index i at position i + 1.
accumulate(calls, toolCall, at) ==
  LET index == IF Truthy(toolCall.index) THEN toolCall.index.n ELSE 0
      old == IF index + 1 <= Len(calls) THEN calls[index + 1] ELSE <<>>
      call ==
        IF old = <<>>
        THEN [id |-> OrString(toolCall.id,
                              "call_" \o ToString(index) \o "_"
                                \o ToString(at)),
              type |-> "function",
              function |->
                [name |-> OrString(toolCall.function.name, ""),
                 arguments |-> OrString(toolCall.function.arguments, "")]]
        ELSE [id |-> old[1].id,
              type |-> old[1].type,
              function |->
                [name |->
                   IF Truthy(toolCall.function.name)
                   THEN toolCall.function.name.s ELSE old[1].function.name,
                 arguments |->
                   IF Truthy(toolCall.function.arguments)
                   THEN appendArguments(old[1].function.arguments,
                                        toolCall.function.arguments.s)
                   ELSE old[1].function.arguments]]
  IN [i \in 1..Maximum({Len(calls), index + 1}) |->
        IF i = index + 1 THEN <<call>>
        ELSE IF i <= Len(calls) THEN calls[i] ELSE <<>>]

RECURSIVE accumulateAll(_, _, _)
accumulateAll(calls, deltas, at) ==
  IF deltas = <<>> THEN calls
  ELSE accumulateAll(accumulate(calls, Head(deltas), at), Tail(deltas), at)

\* Lines 318-336: the loop over message.tool_calls, from the map and the
\* parts so far.  Reading a hole throws a TypeError, JSON.parse a
\* SyntaxError; what the map was set to before the throw stays.
RECURSIVE convertToolCalls(_, _, _)
convertToolCalls(tool_calls, map, parts) ==
  IF tool_calls = <<>> THEN [map |-> map, parts |-> parts, error |-> ""]
  ELSE IF tool_calls[1] = <<>>
  THEN [map |-> map, parts |-> parts, error |-> "TypeError"]
  ELSE LET toolCall == tool_calls[1][1]
           set == mapSet(map, toolCall.function.name, toolCall.id)
           args == JSONparse(IF toolCall.function.arguments = "" THEN "{}"
                             ELSE toolCall.function.arguments)
       IN IF args = <<>>
          THEN [map |-> set, parts |-> parts, error |-> "SyntaxError"]
          ELSE convertToolCalls(
                 SubSeq(tool_calls, 2, Len(tool_calls)), set,
                 Append(parts,
                        [functionCall |->
                           [id |-> toolCall.id, name |-> toolCall.function.name,
                            args |-> args[1]]]))

\* Lines 111-119: the response the generator makes of its tool calls.
mockResponse(tool_calls, finish_reason, usage) ==
  [choices |->
     <<[message |-> [content |-> Undefined, tool_calls |-> Arr(tool_calls)],
        finish_reason |-> finish_reason]>>,
   usage |-> usage]

\* Lines 349-353: response.usage?.x || 0.
OrNumber(v, fallback) == IF Truthy(v) THEN v.n ELSE fallback
usageMetadata(usage) ==
  IF usage = Undefined
  THEN [promptTokenCount |-> 0, candidatesTokenCount |-> 0,
        totalTokenCount |-> 0]
  ELSE [promptTokenCount |-> OrNumber(usage.prompt_tokens, 0),
        candidatesTokenCount |-> OrNumber(usage.completion_tokens, 0),
        totalTokenCount |-> OrNumber(usage.total_tokens, 0)]

\* Lines 304-365: the map after the call, and the response or the error
\* thrown.
convertFromOpenAIResponse(response, map) ==
  IF response.choices = <<>>
  THEN [map |-> map, error |-> "Error: No choices in OpenAI response",
        response |-> Undefined]
  ELSE
  LET choice == response.choices[1]
      text ==
        IF Truthy(choice.message.content)
        THEN <<[text |-> choice.message.content.s]>> ELSE <<>>
      r == IF Truthy(choice.message.tool_calls)
           THEN convertToolCalls(choice.message.tool_calls.a, map, <<>>)
           ELSE [map |-> map, parts |-> <<>>, error |-> ""]
  IN [map |-> r.map, error |-> r.error,
      response |->
        [candidates |->
           <<[content |-> [role |-> "model", parts |-> text \o r.parts],
              finishReason |-> Str(mapFinishReason(choice.finish_reason))]>>,
         usageMetadata |-> usageMetadata(response.usage),
         functionCalls |->
           IF Len(r.parts) > 0
           THEN Arr([i \in 1..Len(r.parts) |-> r.parts[i].functionCall])
           ELSE Undefined]]

\* Lines 367-392.
convertFromOpenAIStreamChunk(chunk) ==
  LET choice == chunk.choices[1]
      content == OrString(choice.delta.content, "")
  IN [candidates |->
        <<[content |->
             [role |-> "model",
              parts |-> IF content # "" THEN <<[text |-> content]>> ELSE <<>>],
           finishReason |->
             IF Truthy(choice.finish_reason)
             THEN Str(mapFinishReason(choice.finish_reason)) ELSE Undefined]>>,
      usageMetadata |-> Undefined,
      functionCalls |-> Undefined]

\* Line 124.
streamingError(error) == "OpenAI streaming API error: " \o error

\* Line 51.
apiError(error) == "OpenAI API error: " \o error

\* What the API answers to the request of generateContent: a tool call
\* with the usage of the request, a text, a tool call whose arguments are
\* no document, no choice at all; <<>> stands for the request that fails.
ApiResponse(content, tool_calls, finish_reason, usage) ==
  [choices |->
     <<[message |-> [content |-> content, tool_calls |-> tool_calls],
        finish_reason |-> finish_reason]>>,
   usage |-> usage]
ApiToolCall(id, name, arguments) ==
  <<[id |-> id, type |-> "function",
     function |-> [name |-> name, arguments |-> arguments]]>>
ApiAnswers ==
  {<<ApiResponse(Undefined, Arr(<<ApiToolCall("c0", "f", "{}")>>),
                 Str("tool_calls"), Usage(Num(1), Num(2), Num(3)))>>,
   <<ApiResponse(Str("hi"), Undefined, Str("stop"),
                 Usage(Num(1), Undefined, Num(1)))>>,
   <<ApiResponse(Undefined, Arr(<<ApiToolCall("c1", "g", "{\"a\":")>>),
                 Str("tool_calls"), Undefined)>>,
   <<[choices |-> <<>>, usage |-> Undefined]>>,
   <<>>}


(***************************************************************************)
(* convertContentsToMessages (openaiContentGenerator.ts 222-291).  A part  *)
(* has one of text, functionCall and functionResponse, the others being    *)
(* undefined.  A history is made of user texts and of exchanges: a model   *)
(* content with function calls, then the user content with the response to *)
(* each of them, in the order of the calls.                                *)
(***************************************************************************)
MaxExchanges == 2

TextPart(text) ==
  [text |-> Str(text), functionCall |-> Undefined,
   functionResponse |-> Undefined]
FunctionCallPart(id, name, args) ==
  [text |-> Undefined,
   functionCall |-> Obj([id |-> id, name |-> name, args |-> args]),
   functionResponse |-> Undefined]
FunctionResponsePart(id, name, response) ==
  [text |-> Undefined, functionCall |-> Undefined,
   functionResponse |->
     Obj([id |-> id, name |-> name, response |-> response])]
HistoryContent(role, parts) == [role |-> role, parts |-> parts]

\* The calls of one model turn: <<id, name>> each; the same name can be
\* called twice in a turn, and a call can come without id.
CallLists ==
  {<<<<Str("c1"), "f">>>>,
   <<<<Str("c2"), "f">>>>,
   <<<<Str("c1"), "f">>, <<Str("c2"), "f">>>>,
   <<<<Str("c1"), "f">>, <<Str("c3"), "g">>>>,
   <<<<Undefined, "f">>>>}

\* The model content with the calls, after a text or not, and the user
\* content that answers them.
Exchange(text, calls) ==
  <<HistoryContent("model",
            (IF text = "" THEN <<>> ELSE <<TextPart(text)>>)
              \o [j \in 1..Len(calls) |->
                    FunctionCallPart(calls[j][1], calls[j][2],
                                     Obj({<<"a", 1>>}))]),
    HistoryContent("user",
            [j \in 1..Len(calls) |->
               FunctionResponsePart(calls[j][1], calls[j][2], Obj({}))])>>
Exchanges == {Exchange(text, calls) : text \in {"", "ok"}, calls \in CallLists}

RECURSIVE Flattened(_)
Flattened(xs) == IF xs = <<>> THEN <<>> ELSE xs[1] \o Flattened(Tail(xs))

\* A user text, blank or not, then the exchanges.
ContentHistories ==
  {<<HistoryContent("user", <<TextPart(text)>>)>> \o Flattened(xs) :
     text \in {"hi", " \n﻿"}, xs \in SeqsUpTo(Exchanges, MaxExchanges)}

\* What earlier responses left in toolCallIdMap.
EarlierMaps == {{}, {<<"f", "c0">>}}

\* JSON.stringify on the objects of the histories.
JSONstringify(value) ==
  CASE value = Obj({}) -> "{}"
    [] value = Obj({<<"a", 1>>}) -> "{\"a\":1}"

\* String.prototype.trim on a string: white space and line terminators are
\* removed at both ends.
RECURSIVE trimmed(_)
trimmed(str) ==
  IF str = "" THEN ""
  ELSE IF SubSeq(str, 1, 1) \in Whitespace
  THEN trimmed(SubSeq(str, 2, Len(str)))
  ELSE IF SubSeq(str, Len(str), Len(str)) \in Whitespace
  THEN trimmed(SubSeq(str, 1, Len(str) - 1))
  ELSE str

\* Lines 400-405.
RECURSIVE extractTextFromParts(_)
extractTextFromParts(parts) ==
  IF parts = <<>> THEN ""
  ELSE (IF Truthy(parts[1].text) THEN parts[1].text.s ELSE "")
         \o extractTextFromParts(Tail(parts))

\* Lines 407-411.
extractFunctionCallsFromParts(parts) ==
  SelectSeq([j \in 1..Len(parts) |-> parts[j].functionCall],
            LAMBDA fc : Truthy(fc))

\* Lines 413-419.
isFunctionResponseContent(content) ==
  /\ content.role = "user"
  /\ \A j \in 1..Len(content.parts) :
       Truthy(content.parts[j].functionResponse)

\* A message of the OpenAI request.
Message(role, content, tool_calls, tool_call_id) ==
  [role |-> role, content |-> content, tool_calls |-> tool_calls,
   tool_call_id |-> tool_call_id]

\* Line 234.
toolCallIdFor(map, functionName, at) ==
  IF mapGet(map, functionName) # <<>> /\ mapGet(map, functionName)[1] # ""
  THEN mapGet(map, functionName)[1]
  ELSE "call_" \o functionName \o "_" \o ToString(at)

\* Lines 230-242: the tool messages of the parts of one content.
RECURSIVE toolMessages(_, _, _)
toolMessages(parts, map, at) ==
  IF parts = <<>> THEN <<>>
  ELSE (IF Truthy(parts[1].functionResponse)
        THEN LET functionResponse == parts[1].functionResponse.o
             IN <<Message("tool",
                          Str(JSONstringify(functionResponse.response)),
                          Undefined,
                          Str(toolCallIdFor(map, functionResponse.name,
                                            at)))>>
        ELSE <<>>)
         \o toolMessages(Tail(parts), map, at)

\* Lines 266-279: the tool calls of the function calls from the one of
\* index `index` on, and the map after them.
RECURSIVE convertFunctionCalls(_, _, _, _)
convertFunctionCalls(functionCalls, index, map, at) ==
  IF index >= Len(functionCalls) THEN [toolCalls |-> <<>>, map |-> map]
  ELSE LET fc == functionCalls[index + 1].o
           toolCallId ==
             OrString(fc.id, "call_" \o fc.name \o "_" \o ToString(at)
                               \o "_" \o ToString(index))
           rest == convertFunctionCalls(
                     functionCalls, index + 1,
                     mapSet(map, IF fc.name = "" THEN "unknown" ELSE fc.name,
                            toolCallId),
                     at)
       IN [toolCalls |->
             <<[id |-> toolCallId, type |-> "function",
                function |-> [name |-> fc.name,
                              arguments |-> JSONstringify(fc.args)]]>>
               \o rest.toolCalls,
           map |-> rest.map]

\* Lines 225-288: the messages so far and the map, after the contents.
RECURSIVE convertContents(_, _, _, _)
convertContents(rest, map, msgs, at) ==
  IF rest = <<>> THEN [messages |-> msgs, map |-> map]
  ELSE
    LET content == rest[1]
        text == extractTextFromParts(content.parts)
        functionCalls == extractFunctionCallsFromParts(content.parts)
        converted == convertFunctionCalls(functionCalls, 0, map, at)
    IN IF content.role = "user"
       THEN IF isFunctionResponseContent(content)
            THEN convertContents(
                   Tail(rest), map,
                   msgs \o toolMessages(content.parts, map, at), at)
            ELSE convertContents(
                   Tail(rest), map,
                   IF trimmed(text) # ""
                   THEN Append(msgs, Message("user", Str(text), Undefined,
                                             Undefined))
                   ELSE msgs,
                   at)
       ELSE IF content.role = "model"
       THEN convertContents(
              Tail(rest),
              IF Len(functionCalls) > 0 THEN converted.map ELSE map,
              (IF text # "" /\ trimmed(text) # ""
               THEN Append(msgs, Message("assistant", Str(text), Undefined,
                                         Undefined))
               ELSE msgs)
                \o (IF Len(functionCalls) > 0
                    THEN <<Message("assistant", [t |-> "null"],
                                   Arr(converted.toolCalls), Undefined)>>
                    ELSE <<>>),
              at)
       ELSE convertContents(Tail(rest), map, msgs, at)

(***************************************************************************)
(* The generator of generateContentStream.                                 *)
(***************************************************************************)
\* The contents of the requests of generateContentStream: none, and a
\* history with a call of g.
StreamRequests == {<<>>, Exchange("", <<<<Str("c1"), "g">>>>)}

\* Lines 55-68: generateContentStream has converted its request (line 58),
\* on an object that earlier calls may have used, and made its generator.
InitStream ==
  /\ TurnIdle
  /\ SchedulerIdle
  /\ LoggerIdle
  /\ InstanceIdle
  /\ DecoderIdle
  /\ RestIdleBesides_OpenAIIdle
  /\ chunks \in OpenAIStreams
  /\ taken = 0
  /\ accumulatedContent = ""
  /\ accumulatedToolCalls = <<>>
  /\ emitted = <<>>
  /\ generator = "running"
  /\ \E request \in StreamRequests, map \in EarlierMaps :
       LET r == convertContents(request, map, <<>>, dateNow)
       IN /\ contents = <<request>>
          /\ messages = <<r.messages>>
          /\ toolCallIdMap = r.map
  /\ generated = <<>>
  /\ generatePc = "idle"

\* Lines 82-121 of the iteration on chunk n: the tool calls of the chunk
\* are accumulated and, at a finish reason, converted and yielded.  The
\* generator is then suspended at the yield of line 120, has thrown, or is
\* back at the stream.
HandleToolCalls(n) ==
  LET choice == chunks[n].choices[1]
      delta == choice.delta
      calls ==
        IF Truthy(delta.tool_calls)
        THEN accumulateAll(accumulatedToolCalls, delta.tool_calls.a, dateNow)
        ELSE accumulatedToolCalls
      final == Truthy(choice.finish_reason) /\ Len(calls) > 0
      r == convertFromOpenAIResponse(
             mockResponse(calls, choice.finish_reason, chunks[n].usage),
             toolCallIdMap)
  IN /\ accumulatedToolCalls' = calls
     /\ toolCallIdMap' = IF final THEN r.map ELSE toolCallIdMap
     /\ IF final /\ r.error # ""
        THEN /\ generator' = streamingError(r.error)
             /\ UNCHANGED emitted
        ELSE IF final
        THEN /\ emitted' = Append(emitted,
                                  [at |-> n, kind |-> "tool_calls",
                                   response |-> r.response])
             /\ generator' = "yielded_tool_calls"
        ELSE /\ generator' = "running"
             /\ UNCHANGED emitted

\* Lines 70-122: the stream delivers its next chunk; the generator runs to
\* its next yield, to its throw, or back to awaiting the stream.
TakeChunk ==
  /\ generator = "running"
  /\ taken < Len(chunks)
  /\ taken' = taken + 1
  /\ LET chunk == chunks[taken + 1]
     IN IF chunk.choices = <<>>
        THEN UNCHANGED <<toolCallIdMap, accumulatedContent,
                         accumulatedToolCalls, emitted, generator>>
        ELSE IF Truthy(chunk.choices[1].delta.content)
        THEN /\ accumulatedContent' =
                  accumulatedContent \o chunk.choices[1].delta.content.s
             /\ emitted' =
                  Append(emitted,
                         [at |-> taken + 1, kind |-> "text",
                          response |-> convertFromOpenAIStreamChunk(chunk)])
             /\ generator' = "yielded_text"
             /\ UNCHANGED <<toolCallIdMap, accumulatedToolCalls>>
        ELSE /\ HandleToolCalls(taken + 1)
             /\ UNCHANGED accumulatedContent
  /\ UNCHANGED <<chunks, contents, messages, generated, generatePc>>
  /\ UNCHANGED besides_openaiVars

\* Lines 82-121: the consumer asks for the next response after the text of
\* line 79.
ResumeAfterText ==
  /\ generator = "yielded_text"
  /\ HandleToolCalls(taken)
  /\ UNCHANGED <<chunks, taken, accumulatedContent, contents, messages,
                 generated, generatePc>>
  /\ UNCHANGED besides_openaiVars

\* Line 70: the consumer asks for the next response after the tool calls
\* of line 120.
ResumeAfterToolCalls ==
  /\ generator = "yielded_tool_calls"
  /\ generator' = "running"
  /\ UNCHANGED <<toolCallIdMap, chunks, taken, accumulatedContent,
                 accumulatedToolCalls, emitted, contents, messages,
                 generated, generatePc>>
  /\ UNCHANGED besides_openaiVars

\* The consumer stops at a response it holds (return() of the generator):
\* the generator finishes where it is suspended.
ConsumerReturns ==
  /\ generator \in {"yielded_text", "yielded_tool_calls"}
  /\ generator' = "returned"
  /\ UNCHANGED <<toolCallIdMap, chunks, taken, accumulatedContent,
                 accumulatedToolCalls, emitted, contents, messages,
                 generated, generatePc>>
  /\ UNCHANGED besides_openaiVars

\* The stream is exhausted: the generator returns.
StreamExhausted ==
  /\ generator = "running"
  /\ taken = Len(chunks)
  /\ generator' = "done"
  /\ UNCHANGED <<toolCallIdMap, chunks, taken, accumulatedContent,
                 accumulatedToolCalls, emitted, contents, messages,
                 generated, generatePc>>
  /\ UNCHANGED besides_openaiVars

\* Lines 65, 70 and 123-125: the request or the stream fails.
StreamFails ==
  /\ generator = "running"
  /\ taken < Len(chunks)
  /\ generator' = streamingError("Error: socket hang up")
  /\ UNCHANGED <<toolCallIdMap, chunks, taken, accumulatedContent,
                 accumulatedToolCalls, emitted, contents, messages,
                 generated, generatePc>>
  /\ UNCHANGED besides_openaiVars

NextStream ==
  \/ TakeChunk
  \/ ResumeAfterText
  \/ ResumeAfterToolCalls
  \/ ConsumerReturns
  \/ StreamExhausted
  \/ StreamFails

SpecStream == InitStream /\ [][NextStream]_vars

\* Chunk k carries a finish reason.
HasFinish(k) ==
  /\ chunks[k].choices # <<>>
  /\ Truthy(chunks[k].choices[1].finish_reason)

\* The entries of delta.tool_calls of the first k chunks, in arrival order.
RECURSIVE DeltasUpTo(_)
DeltasUpTo(k) ==
  IF k = 0 THEN <<>>
  ELSE DeltasUpTo(k - 1) \o
         (IF chunks[k].choices # <<>>
               /\ Truthy(chunks[k].choices[1].delta.tool_calls)
          THEN chunks[k].choices[1].delta.tool_calls.a
          ELSE <<>>)

\* The index a fragment is for, 0 when it names none.
IndexOfDelta(d) == IF d.index = Undefined THEN 0 ELSE d.index.n
IndexesUpTo(k) ==
  {IndexOfDelta(DeltasUpTo(k)[j]) : j \in 1..Len(DeltasUpTo(k))}

\* The argument fragments for one index, concatenated in arrival order.
RECURSIVE Concatenated(_, _)
Concatenated(index, deltas) ==
  IF deltas = <<>> THEN ""
  ELSE (IF IndexOfDelta(Head(deltas)) = index
             /\ Head(deltas).function.arguments # Undefined
        THEN Head(deltas).function.arguments.s ELSE "")
         \o Concatenated(index, Tail(deltas))
ArgumentsOf(index, k) ==
  LET text == Concatenated(index, DeltasUpTo(k))
  IN JSONparse(IF text = "" THEN "{}" ELSE text)

\* The response with the tool calls was yielded at chunk k, and the
\* arguments of the call of every index are the concatenated fragments.
ToolCallsEmittedAt(k) ==
  \E j \in 1..Len(emitted) :
    /\ emitted[j].at = k
    /\ emitted[j].kind = "tool_calls"
    /\ emitted[j].response.functionCalls # Undefined
    /\ LET calls == emitted[j].response.functionCalls.a
       IN /\ Len(calls) = Cardinality(IndexesUpTo(k))
          /\ \A i \in IndexesUpTo(k) :
               /\ i + 1 <= Len(calls)
               /\ ArgumentsOf(i, k) = <<calls[i + 1].args>>

\* No response with tool calls is yielded at a chunk without finish reason.
NotBeforeFinish ==
  \A j \in 1..Len(emitted) :
    emitted[j].kind = "tool_calls" => HasFinish(emitted[j].at)

\* The generator went through lines 82-121 on chunk k: it is not suspended
\* at the text of that chunk, and the consumer did not stop it there.
StoppedAtText ==
  /\ generator \in {"yielded_text", "returned"}
  /\ emitted # <<>>
  /\ emitted[Len(emitted)].kind = "text"
Observed(k) == k < taken \/ (k = taken /\ ~StoppedAtText)

\* The claim as stated: every chunk with a finish reason that follows some
\* fragment has the response yielded.
C27_Original ==
  /\ NotBeforeFinish
  /\ \A k \in 1..taken :
       (Observed(k) /\ HasFinish(k) /\ IndexesUpTo(k) # {}) =>
         ToolCallsEmittedAt(k)

\* The indexes received are 0..n-1 and the fragments of each make a JSON
\* document, or none arrived for it.
Assembled(k) ==
  /\ IndexesUpTo(k) = 0..(Cardinality(IndexesUpTo(k)) - 1)
  /\ \A i \in IndexesUpTo(k) : ArgumentsOf(i, k) # <<>>

(***************************************************************************)
(* C27: in generateContentStream the arguments of the emitted function     *)
(* call of every tool-call index are the concatenation, in arrival order,  *)
(* of the argument fragments received for that index, and the response     *)
(* holding all accumulated tool calls is yielded when a chunk with a       *)
(* finish reason is observed (the generator went past the text of that     *)
(* chunk) and not before, provided the indexes received                    *)
(* have no gap and each concatenation is empty or a JSON document.         *)
(* Otherwise the generator yields nothing at that chunk and throws         *)
(* "OpenAI streaming API error".                                           *)
(***************************************************************************)
C27_ToolCallsAtFinish ==
  /\ NotBeforeFinish
  /\ \A k \in 1..taken :
       (Observed(k) /\ HasFinish(k) /\ IndexesUpTo(k) # {}) =>
         IF Assembled(k) THEN ToolCallsEmittedAt(k)
         ELSE /\ k = taken
              /\ generator \in {streamingError("TypeError"),
                                streamingError("SyntaxError")}
              /\ \A j \in 1..Len(emitted) :
                   ~(emitted[j].at = k /\ emitted[j].kind = "tool_calls")

\* Two fragments made the arguments {"a":1} of the call emitted at the
\* third chunk.
C27_Witness ==
  /\ taken = 3
  /\ HasFinish(3)
  /\ Len(DeltasUpTo(2)) = 2
  /\ Len(emitted) = 1
  /\ emitted[1].at = 3
  /\ emitted[1].kind = "tool_calls"
  /\ emitted[1].response.functionCalls.a[1].args = Obj({<<"a", 1>>})
  /\ generator = "yielded_tool_calls"


(***************************************************************************)
(* The requests on the object: the conversion alone, and generateContent.  *)
(***************************************************************************)
InitConvert ==
  /\ TurnIdle
  /\ SchedulerIdle
  /\ LoggerIdle
  /\ InstanceIdle
  /\ DecoderIdle
  /\ RestIdleBesides_OpenAIIdle
  /\ toolCallIdMap \in EarlierMaps
  /\ chunks = <<>>
  /\ taken = 0
  /\ accumulatedContent = ""
  /\ accumulatedToolCalls = <<>>
  /\ emitted = <<>>
  /\ generator = "running"
  /\ contents \in {<<h>> : h \in ContentHistories}
  /\ messages = <<>>
  /\ generated = <<>>
  /\ generatePc = "idle"

\* Lines 222-291.
convertContentsToMessages ==
  /\ generatePc = "idle"
  /\ messages = <<>>
  /\ LET r == convertContents(contents[1], toolCallIdMap, <<>>, dateNow)
     IN /\ messages' = <<r.messages>>
        /\ toolCallIdMap' = r.map
  /\ UNCHANGED <<chunks, taken, accumulatedContent, accumulatedToolCalls,
                 emitted, generator, contents, generated, generatePc>>
  /\ UNCHANGED besides_openaiVars

\* Lines 42-47: generateContent converts its request (line 45, through
\* convertToOpenAIRequest at 201-203; the contents are a Content[], which
\* normalizeContents returns as they are) and awaits the API.
generateContent ==
  /\ generatePc = "idle"
  /\ messages = <<>>
  /\ LET r == convertContents(contents[1], toolCallIdMap, <<>>, dateNow)
     IN /\ messages' = <<r.messages>>
        /\ toolCallIdMap' = r.map
  /\ generatePc' = "awaiting"
  /\ UNCHANGED <<chunks, taken, accumulatedContent, accumulatedToolCalls,
                 emitted, generator, contents, generated>>
  /\ UNCHANGED besides_openaiVars

\* Lines 48-52: the API answered and the response is converted (line 49),
\* or the request failed; either error is wrapped (line 51).
GenerateContentSettles ==
  /\ generatePc = "awaiting"
  /\ \E answer \in ApiAnswers :
       LET r == IF answer = <<>>
                THEN [map |-> toolCallIdMap,
                      error |-> "Error: socket hang up",
                      response |-> Undefined]
                ELSE convertFromOpenAIResponse(answer[1], toolCallIdMap)
       IN /\ toolCallIdMap' = r.map
          /\ generated' =
               <<IF r.error # ""
                 THEN [error |-> apiError(r.error), response |-> Undefined]
                 ELSE [error |-> "", response |-> r.response]>>
  /\ generatePc' = "settled"
  /\ UNCHANGED <<chunks, taken, accumulatedContent, accumulatedToolCalls,
                 emitted, generator, contents, messages>>
  /\ UNCHANGED besides_openaiVars

NextConvert ==
  \/ convertContentsToMessages
  \/ generateContent
  \/ GenerateContentSettles

SpecConvert == InitConvert /\ [][NextConvert]_vars

\* The tool messages that follow message p, up to the next other message.
RECURSIVE ToolMessagesAfter(_, _)
ToolMessagesAfter(msgs, p) ==
  IF p + 1 <= Len(msgs) /\ msgs[p + 1].role = "tool"
  THEN <<msgs[p + 1]>> \o ToolMessagesAfter(msgs, p + 1)
  ELSE <<>>

\* The function-response parts of a history.
ResponseParts(h) ==
  SelectSeq(Flattened([j \in 1..Len(h) |-> h[j].parts]),
            LAMBDA part : Truthy(part.functionResponse))

(***************************************************************************)
(* C28: every function-response part of the history becomes a tool message *)
(* whose tool_call_id is the id of the assistant tool call the response    *)
(* answers: the tool messages after an assistant message with tool calls   *)
(* carry the ids of those calls, one each and in their order, also when    *)
(* the same function name is called more than once.                        *)
(***************************************************************************)
C28_ResponseReferencesItsCall ==
  messages # <<>> =>
    LET msgs == messages[1]
    IN /\ Len(SelectSeq(msgs, LAMBDA m : m.role = "tool"))
            = Len(ResponseParts(contents[1]))
       /\ \A p \in 1..Len(msgs) :
            msgs[p].tool_calls # Undefined =>
              LET calls == msgs[p].tool_calls.a
                  answers == ToolMessagesAfter(msgs, p)
              IN /\ Len(answers) = Len(calls)
                 /\ \A j \in 1..Len(calls) :
                      answers[j].tool_call_id = Str(calls[j].id)


(***************************************************************************)
(* ReadFileTool (read-file.ts).  execute validates its parameters and      *)
(* returns at once when they are invalid; otherwise it awaits              *)
(* processSingleFileContent and records a metric for a file that was read. *)
(* The helpers of utils/ and telemetry/ are not part of the sources at     *)
(* hand; they are modelled by their contracts.                             *)
(***************************************************************************)
MaxOffset == 1

Null == [t |-> "null"]

\* Line 79: the root directory of the tool.
rootDirectory == "/root"

\* The parameters a caller passes: paths inside and outside the root,
\* relative, ignored, of the wrong type and missing; offsets and limits of
\* either sign, of the wrong type and missing.
ReadFileToolParams ==
  [absolute_path :
     {Str("/root/a.txt"), Str("/root/src/b.png"), Str("a.txt"),
      Str("/etc/passwd"), Str("/root/secret.env"), Num(5), Undefined},
   offset : {Undefined, Str("0")} \cup {Num(n) : n \in -1..MaxOffset},
   limit : {Undefined, Num(-5), Num(0), Num(10)}]

\* String.prototype.startsWith.
startsWith(str, prefix) ==
  /\ Len(str) >= Len(prefix)
  /\ SubSeq(str, 1, Len(prefix)) = prefix

\* SchemaValidator.validate against the schema of lines 56-77: the
\* required property is there and each property has its declared type.
SchemaValidator_validate(params) ==
  /\ params.absolute_path.t = "string"
  /\ params.offset.t \in {"undefined", "number"}
  /\ params.limit.t \in {"undefined", "number"}

\* path.isAbsolute on POSIX paths.
isAbsolute(filePath) == startsWith(filePath, "/")

\* isWithinRoot for paths without . and .. segments.
isWithinRoot(filePath, root) ==
  filePath = root \/ startsWith(filePath, root \o "/")

\* FileDiscoveryService.shouldAgentIgnoreFile with the pattern *.env.
shouldAgentIgnoreFile(filePath) == endsWith(filePath, ".env")

\* makeRelative for a path within the root.
makeRelative(filePath, root) ==
  IF filePath = root THEN "."
  ELSE SubSeq(filePath, Len(root) + 2, Len(filePath))

\* shortenPath leaves a path of up to 35 characters as it is.
shortenPath(filePath) ==
  IF Len(filePath) <= 35 THEN filePath
  ELSE "..." \o SubSeq(filePath, Len(filePath) - 31, Len(filePath))

\* Lines 82-116.
validateToolParams(params) ==
  IF ~SchemaValidator_validate(params)
  THEN Str("Parameters failed schema validation.")
  ELSE
    LET filePath == params.absolute_path.s
    IN IF ~isAbsolute(filePath)
       THEN Str("File path must be absolute, but was relative: " \o filePath
                  \o ". You must provide an absolute path.")
       ELSE IF ~isWithinRoot(filePath, rootDirectory)
       THEN Str("File path must be within the root directory ("
                  \o rootDirectory \o "): " \o filePath)
       ELSE IF params.offset # Undefined /\ params.offset.n < 0
       THEN Str("Offset must be a non-negative number")
       ELSE IF params.limit # Undefined /\ params.limit.n <= 0
       THEN Str("Limit must be a positive number")
       ELSE IF shouldAgentIgnoreFile(filePath)
       THEN Str("File path '"
                  \o shortenPath(makeRelative(filePath, rootDirectory))
                  \o "' is ignored by .agentignore pattern(s).")
       ELSE Null

\* Mutant: the validation result is not looked at.
rejectedNever(validationError) == FALSE

\* Line 135: if (validationError).
rejected(validationError) ==
  validationError # Null /\ validationError.s # ""

\* The results of processSingleFileContent: a text, an image, an error.
FileContents ==
  {[llmContent |-> Str("one\ntwo"), returnDisplay |-> "", error |-> Undefined],
   [llmContent |-> Obj("inlineData"), returnDisplay |-> "Read image file",
    error |-> Undefined],
   [llmContent |-> Str("Could not read file"),
    returnDisplay |-> "File not found.", error |-> Str("File not found")]}

\* String.prototype.split('\n').length.
RECURSIVE lineCount(_)
lineCount(str) ==
  IF str = "" THEN 1
  ELSE (IF SubSeq(str, 1, 1) = "\n" THEN 1 ELSE 0)
         + lineCount(SubSeq(str, 2, Len(str)))

\* The last segment of a POSIX path, trailing slashes set aside.
lastSegment(filePath) ==
  LET ends == {i \in 1..Len(filePath) : SubSeq(filePath, i, i) # "/"}
      end == IF ends = {} THEN 0 ELSE Maximum(ends)
      slashes == {i \in 1..end : SubSeq(filePath, i, i) = "/"}
      start == IF slashes = {} THEN 1 ELSE Maximum(slashes) + 1
  IN IF end = 0 THEN "" ELSE SubSeq(filePath, start, end)

\* path.extname on POSIX paths: from the last dot of the last segment to
\* its end; "" when the segment has no dot, when its only dot is its first
\* character, and for the segment "..".
extname(filePath) ==
  LET base == lastSegment(filePath)
      dots == {i \in 1..Len(base) : SubSeq(base, i, i) = "."}
  IN IF dots = {} \/ Maximum(dots) = 1 \/ base = ".." THEN ""
     ELSE SubSeq(base, Maximum(dots), Len(base))

\* getSpecificMimeType by extension.
getSpecificMimeType(filePath) ==
  CASE extname(filePath) = ".txt" -> Str("text/plain")
    [] extname(filePath) = ".png" -> Str("image/png")
    [] OTHER -> Undefined

\* A ToolResult, returned.
ToolResult(llmContent, returnDisplay) ==
  [settled |-> "resolved",
   value |-> [llmContent |-> llmContent, returnDisplay |-> returnDisplay]]

InitReadFile ==
  /\ TurnIdle
  /\ SchedulerIdle
  /\ LoggerIdle
  /\ InstanceIdle
  /\ DecoderIdle
  /\ RestIdleBesides_ReadFileIdle
  /\ readParams \in {<<p>> : p \in ReadFileToolParams}
  /\ readPc = "start"
  /\ filesRead = <<>>
  /\ fileMetrics = <<>>
  /\ toolResult = <<>>

\* Lines 130-147: execute up to its return or its await.
execute ==
  /\ readPc = "start"
  /\ LET params == readParams[1]
         validationError == validateToolParams(params)
     IN IF rejected(validationError)
        THEN /\ toolResult' =
                  <<ToolResult(
                      Str("Error: Invalid parameters provided. Reason: "
                            \o validationError.s),
                      validationError.s)>>
             /\ readPc' = "done"
             /\ UNCHANGED filesRead
        ELSE /\ filesRead' =
                  Append(filesRead,
                         [path |-> params.absolute_path, root |-> rootDirectory,
                          offset |-> params.offset, limit |-> params.limit])
             /\ readPc' = "reading"
             /\ UNCHANGED toolResult
  /\ UNCHANGED <<readParams, fileMetrics>>
  /\ UNCHANGED besides_readFileVars

\* Lines 149-172: processSingleFileContent has answered.
FileProcessed ==
  /\ readPc = "reading"
  /\ \E result \in FileContents :
       IF Truthy(result.error)
       THEN /\ toolResult' =
                 <<ToolResult(result.error, result.returnDisplay)>>
            /\ UNCHANGED fileMetrics
       ELSE /\ toolResult' =
                 <<ToolResult(result.llmContent, result.returnDisplay)>>
            /\ fileMetrics' =
                 Append(fileMetrics,
                        [operation |-> "read",
                         lines |->
                           IF result.llmContent.t = "string"
                           THEN Num(lineCount(result.llmContent.s))
                           ELSE Undefined,
                         mimetype |->
                           IF readParams[1].absolute_path.t = "string"
                           THEN getSpecificMimeType(
                                  readParams[1].absolute_path.s)
                           ELSE Undefined,
                         extension |->
                           IF readParams[1].absolute_path.t = "string"
                           THEN Str(extname(readParams[1].absolute_path.s))
                           ELSE Undefined])
  /\ readPc' = "done"
  /\ UNCHANGED <<readParams, filesRead>>
  /\ UNCHANGED besides_readFileVars

NextReadFile ==
  \/ execute
  \/ FileProcessed

SpecReadFile == InitReadFile /\ [][NextReadFile]_vars

\* The messages of the six kinds of invalid parameters.
ValidationMessages ==
  {"Parameters failed schema validation.",
   "File path must be absolute, but was relative: a.txt. You must provide an absolute path.",
   "File path must be within the root directory (/root): /etc/passwd",
   "Offset must be a non-negative number",
   "Limit must be a positive number",
   "File path 'secret.env' is ignored by .agentignore pattern(s)."}

(***************************************************************************)
(* C29: ReadFileTool.execute never throws on invalid parameters: whenever  *)
(* validateToolParams returns a message (schema failure, relative path,    *)
(* path outside the root, negative offset, non-positive limit, ignored     *)
(* path), execute returns a ToolResult carrying that message in llmContent *)
(* and returnDisplay, reads no file and records no file-operation metric.  *)
(***************************************************************************)
C29_InvalidParamsReturned ==
  (readPc # "start" /\ validateToolParams(readParams[1]) # Null) =>
    LET message == validateToolParams(readParams[1]).s
    IN /\ message \in ValidationMessages
       /\ readPc = "done"
       /\ toolResult =
            <<[settled |-> "resolved",
               value |->
                 [llmContent |->
                    Str("Error: Invalid parameters provided. Reason: "
                          \o message),
                  returnDisplay |-> message]]>>
       /\ filesRead = <<>>
       /\ fileMetrics = <<>>

\* An ignored path inside the root, with valid offset and limit.
C29_Witness ==
  /\ readPc = "done"
  /\ readParams[1].absolute_path = Str("/root/secret.env")
  /\ readParams[1].offset = Num(0)
  /\ readParams[1].limit = Num(10)
  /\ toolResult # <<>>
  /\ toolResult[1].value.returnDisplay
       = "File path 'secret.env' is ignored by .agentignore pattern(s)."
  /\ filesRead = <<>>


(***************************************************************************)
(* Thought chunks of Turn.run.                                             *)
(***************************************************************************)
\* Chunk n was received while the signal was not set, and so classified.
Classified(n) == n <= idx /\ cancelSeenAt # n

\* The events yielded for chunk n.
EventsOfChunk(n) == {i \in 1..Len(events) : eventChunk[i] = n}

ThoughtChunkHandled(n) ==
  /\ Cardinality(EventsOfChunk(n)) = 1
  /\ \A i \in EventsOfChunk(n) : events[i].type = Thought
  /\ n <= Len(debugResponses)
  /\ debugResponses[n] = stream[n]
  /\ Len(pendingToolCalls) = Len(RequestsYielded)

\* After the Thought event the generator goes back to the stream with no
\* further event and no pending tool call.
ThoughtStep ==
  /\ (pc # "thought" /\ pc' = "thought") =>
       /\ pendingToolCalls' = pendingToolCalls
       /\ Len(events') = Len(events) + 1
       /\ debugResponses' = Append(debugResponses, stream[idx'])
  /\ pc = "thought" =>
       /\ pc' \in {"thought", "read"}
       /\ UNCHANGED <<events, pendingToolCalls, debugResponses>>

(***************************************************************************)
(* C30: a chunk whose first content part is a thought makes Turn.run yield *)
(* exactly one Thought event and nothing else for that chunk: no Content   *)
(* event, no ToolCallRequest event, and nothing is added to                *)
(* pendingToolCalls even if the chunk carries function calls; the chunk is *)
(* still appended to debugResponses.                                       *)
(***************************************************************************)
C30_ThoughtOnly ==
  /\ [](\A n \in 1..Len(stream) :
          (Classified(n) /\ IsThoughtChunk(stream[n]))
            => ThoughtChunkHandled(n))
  /\ [][ThoughtStep]_vars

\* A thought chunk with a function call was classified and the generator
\* went on to the end of the stream.
C30_Witness ==
  /\ pc = "done"
  /\ Len(stream) = 1
  /\ IsThoughtChunk(stream[1])
  /\ functionCallsOf(stream[1]) # <<>>
  /\ Classified(1)
  /\ EventTypes = <<Thought>>
  /\ pendingToolCalls = <<>>
  /\ debugResponses = <<stream[1]>>


(***************************************************************************)
(* Cancellation while a chunk is being processed.                          *)
(***************************************************************************)
NonTerminalTypes == {Content, Thought, ToolCallRequest}

\* The events a step appends.
NewEvents == SubSeq(events', Len(events) + 1, Len(events'))

\* A step taken with the signal set yields none of Content, Thought and
\* ToolCallRequest and leaves pendingToolCalls alone.
NothingMoreOnceAborted ==
  aborted =>
    /\ \A i \in 1..Len(NewEvents) : NewEvents[i].type \notin NonTerminalTypes
    /\ pendingToolCalls' = pendingToolCalls

(***************************************************************************)
(* C31: once the cancellation signal is set, Turn.run yields no further    *)
(* Content, Thought or ToolCallRequest event and adds nothing more to      *)
(* pendingToolCalls, also when the signal is set between two events of one *)
(* chunk: the rest of that chunk is abandoned.                             *)
(***************************************************************************)
C31_NothingAfterCancellation == [][NothingMoreOnceAborted]_vars


(***************************************************************************)
(* ToolCallEvent and the call it was built from.                           *)
(***************************************************************************)
IsToolCallEvent(b) == b.class = "ToolCallEvent"
CallOf(b) == b.args[1]

(***************************************************************************)
(* C32: a ToolCallEvent built from a completed tool call has success true  *)
(* exactly when the call's status is 'success', has decision equal to      *)
(* getDecisionFromOutcome(outcome) when the call carries an outcome and no *)
(* decision when it carries none, and has duration 0 when the call has no  *)
(* duration.                                                               *)
(***************************************************************************)
C32_ToolCallEventFields ==
  \A i \in 1..Len(built) :
    IsToolCallEvent(built[i]) =>
      LET call == CallOf(built[i])
          event == built[i].event
      IN /\ Get(event, "success") = Bool(call.status = "success")
         /\ call.outcome # Undefined =>
              Get(event, "decision")
                = Str(getDecisionFromOutcome(call.outcome))
         /\ call.outcome = Undefined => Get(event, "decision") = Undefined
         /\ call.durationMs = Undefined => Get(event, "duration_ms") = Num(0)
         /\ call.durationMs # Undefined
              => Get(event, "duration_ms") = call.durationMs

\* A cancelled call without duration whose outcome was Cancel.
C32_Witness ==
  /\ built # <<>>
  /\ IsToolCallEvent(built[1])
  /\ CallOf(built[1]).status = "cancelled"
  /\ CallOf(built[1]).durationMs = Undefined
  /\ CallOf(built[1]).outcome = Str("Cancel")
  /\ Get(built[1].event, "success") = Bool(FALSE)
  /\ Get(built[1].event, "decision") = Str("reject")
  /\ Get(built[1].event, "duration_ms") = Num(0)


(***************************************************************************)
(* Terminal events of Turn.run.                                            *)
(***************************************************************************)
TerminalTypes == {UserCancelled, Error}
TerminalEvents == {i \in 1..Len(events) : events[i].type \in TerminalTypes}

\* The run is over, the stream was read to its end, nothing failed and no
\* chunk was received with the signal set.
ConsumedWholeStream ==
  /\ pc = "done"
  /\ idx = Len(stream)
  /\ ~Failed
  /\ cancelSeenAt = 0

\* A step taken after a terminal event yields nothing.
NothingAfterTerminal == TerminalEvents # {} => events' = events

(***************************************************************************)
(* C33: every run of Turn.run yields at most one terminal event            *)
(* (UserCancelled or Error), and no event of any type is yielded after it; *)
(* a run that consumes the whole stream without failure and without        *)
(* detecting cancellation yields no terminal event.                        *)
(***************************************************************************)
C33_OneTerminalEventLast ==
  /\ [](/\ Cardinality(TerminalEvents) <= 1
        /\ TerminalEvents \subseteq {Len(events)}
        /\ ConsumedWholeStream => TerminalEvents = {})
  /\ [][NothingAfterTerminal]_vars

\* A run cancelled at its second chunk, after an event of the first, and
\* over.
C33_Witness ==
  /\ pc = "done"
  /\ Len(stream) = 2
  /\ cancelSeenAt = 2
  /\ Len(events) >= 2
  /\ TerminalEvents = {Len(events)}
  /\ LastEventIs(UserCancelled)


(***************************************************************************)
(* The order of the pending queue.                                         *)
(***************************************************************************)
\* The entries are in the order of their enqueueing, oldest first.
OldestFirst(entries) ==
  \A i, j \in 1..Len(entries) :
    i < j => NumberOf(entries[i]) < NumberOf(entries[j])

\* No flush attempt is in flight while another is.
NoOverlap == Cardinality(InFlight) <= 1

(***************************************************************************)
(* C34 as stated: in every reachable state, under any interleaving of      *)
(* enqueues, flush starts, POST successes and POST failures (overlapping   *)
(* flush attempts included), the pending queue holds its events in the     *)
(* order they were enqueued, oldest first.                                 *)
(***************************************************************************)
C34_Original == OldestFirst(logEvents)

(***************************************************************************)
(* C34: in every execution in which no flush attempt is started while      *)
(* another is in flight, the pending queue holds its events in the order   *)
(* they were enqueued, oldest first, in every state.                       *)
(***************************************************************************)
C34_OldestFirstWithoutOverlap == []NoOverlap => []OldestFirst(logEvents)

\* A batch failed and was restored, was drained again with a newer event,
\* and failed again: the queue holds both events.
C34_Witness ==
  /\ Len(flushes) = 2
  /\ flushes[1].stage = "post_error"
  /\ flushes[2].stage = "post_error"
  /\ Len(flushes[1].batch) = 1
  /\ Len(flushes[2].batch) = 2
  /\ IsPrefix(flushes[1].batch, flushes[2].batch)
  /\ logEvents = flushes[2].batch


(***************************************************************************)
(* Retries of a restored batch.                                            *)
(***************************************************************************)
\* The POST of attempt a failed and its batch went back to the queue.
Restored(a) ==
  /\ a <= Len(flushes)
  /\ flushes[a].stage = "post_error"
  /\ flushes[a].batch # <<>>

\* A later attempt carries the batch of attempt a.
Retried(a) ==
  \E b \in (a + 1)..Len(flushes) :
    Numbers(flushes[a].batch) \subseteq Numbers(flushes[b].batch)

(***************************************************************************)
(* C35: every batch restored to the pending queue after a failed POST is   *)
(* eventually included in a later flush attempt, in every execution,       *)
(* including executions in which no further event is logged after the      *)
(* failure.                                                                *)
(***************************************************************************)
C35_RestoredBatchRetried ==
  \A a \in 1..MaxLogCalls : Restored(a) ~> Retried(a)


(***************************************************************************)
(* Events sent more than once.                                             *)
(***************************************************************************)
Carries(a, n) == n \in Numbers(flushes[a].batch)

\* Every attempt that carried event n before attempt b did ended in a
\* transport error.
ResentOnlyAfterError(b, n) ==
  \A a \in 1..(b - 1) : Carries(a, n) => flushes[a].stage = "post_error"

\* An event of a POST that completed with a response is in the queue no
\* more and in no later attempt.
SentForGood(a, n) ==
  /\ n \notin Numbers(logEvents)
  /\ \A b \in (a + 1)..Len(flushes) : ~Carries(b, n)

(***************************************************************************)
(* C36: an event is included in the batch of a second flush attempt only   *)
(* if every earlier attempt that carried it ended in a transport error:    *)
(* once a POST carrying an event has completed with a response, that event *)
(* is never sent again and never reappears in the pending queue.           *)
(***************************************************************************)
C36_ResentOnlyAfterError ==
  \A n \in 1..enqueued :
    /\ \A b \in 1..Len(flushes) : Carries(b, n) => ResentOnlyAfterError(b, n)
    /\ \A a \in Responded : Carries(a, n) => SentForGood(a, n)

\* An event went out twice: the first POST failed, the second was answered
\* and the queue is empty.
C36_Witness ==
  /\ Len(flushes) = 2
  /\ flushes[1].stage = "post_error"
  /\ flushes[2].stage = "responded"
  /\ Carries(1, 1)
  /\ Carries(2, 1)
  /\ logEvents = <<>>


(***************************************************************************)
(* The steps that write last_flush_time.                                   *)
(***************************************************************************)
\* The step in which the POST of an attempt completes with a response.
PostCompletes ==
  \E a \in 1..Len(flushes) :
    flushes[a].stage = "post" /\ flushes'[a].stage = "responded"

\* The step in which an attempt fails, at the lookup or at the POST.
AttemptFails ==
  \E a \in 1..Len(flushes) :
    /\ flushes[a].stage \in {"lookup", "post"}
    /\ flushes'[a].stage \in {"lookup_error", "post_error"}

LastFlushTimeFrame ==
  /\ last_flush_time' # last_flush_time => PostCompletes
  /\ AttemptFails => last_flush_time' = last_flush_time
  /\ enqueued' # enqueued => last_flush_time' = last_flush_time
  /\ PostCompletes => last_flush_time' = clockMs

(***************************************************************************)
(* C37: last_flush_time changes only when a POST completes with a          *)
(* response: a flush attempt that fails (transport error or account-id     *)
(* lookup failure) leaves last_flush_time unchanged, and enqueueLogEvent   *)
(* never changes it.                                                       *)
(***************************************************************************)
C37_LastFlushTimeOnResponse == [][LastFlushTimeFrame]_vars

\* A minute after construction one attempt has failed at the POST and one
\* at the lookup, an event is pending, and last_flush_time is where the
\* constructor put it.
C37_Witness ==
  /\ Len(flushes) = 2
  /\ {flushes[1].stage, flushes[2].stage} = {"post_error", "lookup_error"}
  /\ logEvents # <<>>
  /\ clockMs = flush_interval_ms
  /\ last_flush_time = 0


(***************************************************************************)
(* The number of tool-call responses of a stream.                          *)
(***************************************************************************)
ToolCallResponses == {j \in 1..Len(emitted) : emitted[j].kind = "tool_calls"}

\* The stream delivered a tool-call fragment, and the generator has ended.
DeliveredFragments == DeltasUpTo(taken) # <<>>
Ended == generator = "done"

(***************************************************************************)
(* C38: every stream of generateContentStream that delivered at least one  *)
(* tool-call fragment yields the synthesized tool-call response exactly    *)
(* once before it ends, whatever the number of chunks carrying a finish    *)
(* reason and wherever they occur.                                         *)
(***************************************************************************)
C38_ToolCallsExactlyOnce ==
  /\ Cardinality(ToolCallResponses) <= 1
  /\ (Ended /\ DeliveredFragments) => Cardinality(ToolCallResponses) = 1


(***************************************************************************)
(* FileDiscoveryService (fileDiscoveryService.ts).  The service of a       *)
(* project whose .agentignore holds *.env, as above; its .gitignore, when  *)
(* the project is a git repository, holds secret*.  filterFiles and        *)
(* shouldIgnoreFile are called with the same paths and the same options.   *)
(***************************************************************************)
MaxPaths == 2

\* The filter of .gitignore, by the prefix its pattern matches, and null.
GitIgnoreFilters == {<<>>, <<"secret">>}

\* GitIgnoreParser.isIgnored for a pattern prefix*.
isIgnored(filter, filePath) == startsWith(filePath, filter)

\* The paths: ignored by neither file, by one, by the other, by both.
PathPool == {"a.ts", "b.env", "secret.txt", "secret.env"}
PathLists == SeqsUpTo(PathPool, MaxPaths)

\* Lines 13-16: the options objects, each flag true, false or not given;
\* <<>> is a call without options argument.
FilterFilesOptions ==
  [respectGitIgnore : {Undefined, Bool(TRUE), Bool(FALSE)},
   respectAgentIgnore : {Undefined, Bool(TRUE), Bool(FALSE)}]
OptionsArguments == {<<>>} \cup {<<o>> : o \in FilterFilesOptions}

\* Lines 70-75.
shouldGitIgnoreFile(filePath) ==
  IF gitIgnoreFilter # <<>> THEN isIgnored(gitIgnoreFilter[1], filePath)
  ELSE FALSE

\* Lines 53-64: the callback of filter, with the default of lines 48-51
\* for a missing options argument.
keeps(filePath, optionsArgument) ==
  LET options ==
        IF optionsArgument = <<>>
        THEN [respectGitIgnore |-> Bool(TRUE),
              respectAgentIgnore |-> Bool(TRUE)]
        ELSE optionsArgument[1]
  IN IF Truthy(options.respectGitIgnore) /\ shouldGitIgnoreFile(filePath)
     THEN FALSE
     ELSE IF Truthy(options.respectAgentIgnore)
               /\ shouldAgentIgnoreFile(filePath)
     THEN FALSE
     ELSE TRUE

\* Lines 46-65.
RECURSIVE filterFiles(_, _)
filterFiles(paths, optionsArgument) ==
  IF paths = <<>> THEN <<>>
  ELSE (IF keeps(paths[1], optionsArgument) THEN <<paths[1]>> ELSE <<>>)
         \o filterFiles(SubSeq(paths, 2, Len(paths)), optionsArgument)

\* Lines 90-103: options defaults to {}, and each flag that is undefined
\* in it to true (line 94).
shouldIgnoreFile(filePath, optionsArgument) ==
  LET options ==
        IF optionsArgument = <<>>
        THEN [respectGitIgnore |-> Undefined, respectAgentIgnore |-> Undefined]
        ELSE optionsArgument[1]
      respectGitIgnore ==
        IF options.respectGitIgnore = Undefined THEN Bool(TRUE)
        ELSE options.respectGitIgnore
      respectAgentIgnore ==
        IF options.respectAgentIgnore = Undefined THEN Bool(TRUE)
        ELSE options.respectAgentIgnore
  IN IF Truthy(respectGitIgnore) /\ shouldGitIgnoreFile(filePath) THEN TRUE
     ELSE IF Truthy(respectAgentIgnore) /\ shouldAgentIgnoreFile(filePath)
     THEN TRUE
     ELSE FALSE

\* Lines 23-40: the service is constructed for a project that is a git
\* repository or is not; the calls have not been made.
InitDiscovery ==
  /\ TurnIdle
  /\ SchedulerIdle
  /\ LoggerIdle
  /\ InstanceIdle
  /\ DecoderIdle
  /\ RestIdleBesides_DiscoveryIdle
  /\ gitIgnoreFilter \in GitIgnoreFilters
  /\ filePaths \in PathLists
  /\ filterOptions \in OptionsArguments
  /\ kept = <<>>
  /\ verdicts = <<>>

\* A call of filterFiles(filePaths, options).
CallFilterFiles ==
  /\ kept = <<>>
  /\ kept' = <<filterFiles(filePaths, filterOptions)>>
  /\ UNCHANGED <<gitIgnoreFilter, filePaths, filterOptions, verdicts>>
  /\ UNCHANGED besides_discoveryVars

\* A call of shouldIgnoreFile(p, options) for the next path.
CallShouldIgnoreFile ==
  /\ Len(verdicts) < Len(filePaths)
  /\ verdicts' =
       Append(verdicts,
              shouldIgnoreFile(filePaths[Len(verdicts) + 1], filterOptions))
  /\ UNCHANGED <<gitIgnoreFilter, filePaths, filterOptions, kept>>
  /\ UNCHANGED besides_discoveryVars

NextDiscovery ==
  \/ CallFilterFiles
  \/ CallShouldIgnoreFile

SpecDiscovery == InitDiscovery /\ [][NextDiscovery]_vars

\* The paths whose verdict is false, in their order.
RECURSIVE NotIgnored(_, _)
NotIgnored(paths, ignored) ==
  IF paths = <<>> THEN <<>>
  ELSE (IF ignored[1] THEN <<>> ELSE <<paths[1]>>)
         \o NotIgnored(SubSeq(paths, 2, Len(paths)),
                       SubSeq(ignored, 2, Len(ignored)))

\* Both flags are given, or there is no options argument.
BothFlagsOrNone ==
  \/ filterOptions = <<>>
  \/ /\ filterOptions[1].respectGitIgnore # Undefined
     /\ filterOptions[1].respectAgentIgnore # Undefined

(***************************************************************************)
(* C39: for every list of paths and every options value (both flags given, *)
(* one flag given, none given), filterFiles(paths, options) keeps exactly  *)
(* the paths p for which shouldIgnoreFile(p, options) is false, in their   *)
(* original order.                                                         *)
(***************************************************************************)
C39_FilterAgreesWithShouldIgnore ==
  (kept # <<>> /\ Len(verdicts) = Len(filePaths))
    => kept[1] = NotIgnored(filePaths, verdicts)

\* The same for the calls with both flags or without options argument.
DiscoveryAgreesOnFullOptions ==
  (BothFlagsOrNone /\ kept # <<>> /\ Len(verdicts) = Len(filePaths))
    => kept[1] = NotIgnored(filePaths, verdicts)

====
